---- MODULE Spec2Model ----
(***************************************************************************)
(* A model of roborock/containers.py: the name transcoder (camelize,       *)
(* decamelize), the object codec (RoborockBase.from_dict / as_dict over    *)
(* pydantic models), the derived-field hooks, the ModelStatus registry and *)
(* build_device_features.                                                  *)
(*                                                                         *)
(* Strings that the code inspects character by character (field names and  *)
(* wire keys, the two feature words) are sequences of one-character        *)
(* strings.  Python values are tagged records [t |-> tag, v |-> payload].  *)
(***************************************************************************)
EXTENDS Integers, Sequences, FiniteSets, TLC

(***************************************************************************)
(* Characters and the str methods the transcoder uses.                     *)
(***************************************************************************)
\* str.lower() on one character: the upper-case ASCII letters and their images.
LowerOf ==
    [A |-> "a", B |-> "b", C |-> "c", D |-> "d", E |-> "e", F |-> "f", G |-> "g",
     H |-> "h", I |-> "i", J |-> "j", K |-> "k", L |-> "l", M |-> "m", N |-> "n",
     O |-> "o", P |-> "p", Q |-> "q", R |-> "r", S |-> "s", T |-> "t", U |-> "u",
     V |-> "v", W |-> "w", X |-> "x", Y |-> "y", Z |-> "z"]

\* str.upper() on one character (used by str.title()).
UpperOf ==
    [a |-> "A", b |-> "B", c |-> "C", d |-> "D", e |-> "E", f |-> "F", g |-> "G",
     h |-> "H", i |-> "I", j |-> "J", k |-> "K", l |-> "L", m |-> "M", n |-> "N",
     o |-> "O", p |-> "P", q |-> "Q", r |-> "R", s |-> "S", t |-> "T", u |-> "U",
     v |-> "V", w |-> "W", x |-> "X", y |-> "Y", z |-> "Z"]

\* the regular expression class [A-Z]
IsUpper(ch) == ch \in DOMAIN LowerOf

IsLower(ch) == ch \in DOMAIN UpperOf

\* a cased character, in the sense of str.title()
IsCased(ch) == IsUpper(ch) \/ IsLower(ch)

\* str.lower()
str_lower(s) == [i \in 1..Len(s) |-> IF IsUpper(s[i]) THEN LowerOf[s[i]] ELSE s[i]]

\* str.title(): a cased character is upper-cased when it does not follow a
\* cased character and lower-cased when it does; other characters are kept.
str_title(s) ==
    [i \in 1..Len(s) |->
        IF ~IsCased(s[i]) THEN s[i]
        ELSE IF i > 1 /\ IsCased(s[i-1])
             THEN (IF IsUpper(s[i]) THEN LowerOf[s[i]] ELSE s[i])
             ELSE (IF IsLower(s[i]) THEN UpperOf[s[i]] ELSE s[i])]

\* str.split(sep) for a one-character separator
RECURSIVE str_split(_, _)
str_split(s, sep) ==
    IF \E i \in 1..Len(s) : s[i] = sep
    THEN LET i == CHOOSE j \in 1..Len(s) : s[j] = sep /\ \A l \in 1..(j-1) : s[l] # sep
         IN  <<SubSeq(s, 1, i-1)>> \o str_split(SubSeq(s, i+1, Len(s)), sep)
    ELSE <<s>>

\* "".join(parts)
RECURSIVE str_join(_)
str_join(parts) ==
    IF Len(parts) = 0 THEN <<>> ELSE Head(parts) \o str_join(Tail(parts))

(***************************************************************************)
(* Name transcoder                                                         *)
(***************************************************************************)
camelize(s) ==
    LET parts  == str_split(s, "_")
        first  == Head(parts)
        others == Tail(parts)
    IN  IF Len(others) = 0 THEN s
        ELSE str_lower(first) \o str_join([i \in 1..Len(others) |-> str_title(others[i])])

\* re.sub("([A-Z]+)", "_\\1", s): an underscore before every maximal run of
\* upper-case letters
re_sub_upper_runs(s) ==
    str_join([i \in 1..Len(s) |->
        IF IsUpper(s[i]) /\ (i = 1 \/ ~IsUpper(s[i-1])) THEN <<"_", s[i]>> ELSE <<s[i]>>])

decamelize(s) == str_lower(re_sub_upper_runs(s))

(***************************************************************************)
(* Python values.  Every value is a record [t |-> tag, v |-> payload].     *)
(***************************************************************************)
NoneV == [t |-> "None", v |-> 0]

\* an int that fits 32 bits
IntV(n) == [t |-> "int", v |-> n]

\* a larger int, hi * 10^9 + lo with 0 <= lo < 10^9
BigV(hi, lo) == [t |-> "bigint", v |-> <<hi, lo>>]

\* a str that is neither numeric nor a date or time (an opaque text)
StrV(txt) == [t |-> "str", v |-> txt]

BoolV(b) == [t |-> "bool", v |-> b]

\* a float with one decimal, as its number of tenths
FloatV(tenths) == [t |-> "float", v |-> tenths]

ListV(items) == [t |-> "list", v |-> items]

\* a dict: a function from keys (character sequences) to values
DictV(fn) == [t |-> "dict", v |-> fn]

\* a member of enumeration en, by its value
EnumV(en, val) == [t |-> "enum", v |-> <<en, val>>]

\* an aware datetime in UTC, as epoch seconds hi * 10^9 + lo
DatetimeV(hi, lo) == [t |-> "datetime", v |-> <<hi, lo>>]

\* datetime.time(hour, minute)
TimeV(hh, mm) == [t |-> "time", v |-> <<hh, mm>>]

\* an instance of model class cn with field values fn
ObjV(cn, fn) == [t |-> "obj", v |-> <<cn, fn>>]

IsDict(x) == x.t = "dict"

IsList(x) == x.t = "list"

IsObj(x) == x.t = "obj"

ClassOf(x) == x.v[1]

AttrsOf(x) == x.v[2]

\* the element of a set of one element: ValueOf({e : x \in {v}}) is e with x
\* standing for the value of v, which is computed once
ValueOf(S) == CHOOSE r \in S : TRUE

\* outcomes of a call: a returned value, or a raised exception with its cause
Return(x) == [t |-> "return", v |-> x]

Raise(ex, why) == [t |-> "raise", v |-> <<ex, why>>]

Returned(o) == o.t = "return"

Raised(o) == o.t = "raise"

ExcOf(o) == o.v[1]

CauseOf(o) == o.v[2]

\* pydantic_core.ValidationError derives from ValueError
IsValueError(ex) == ex \in {"ValueError", "ValidationError"}

(***************************************************************************)
(* Field types and field declarations                                      *)
(***************************************************************************)
\* a type that is a bare name: int, str, float, bool, Any, dict, list, None,
\* datetime (datetime.datetime), time (datetime.time)
T(kn) == [k |-> kn]

TEnum(en) == [k |-> "enum", en |-> en]

TModel(cn) == [k |-> "model", cn |-> cn]

TListOf(ty) == [k |-> "listof", of |-> ty]

\* name: T            (no default: required);  nullable when T is "T | None"
Req(nm, ty, nullable) == [name |-> nm, ty |-> ty, nullable |-> nullable, required |-> TRUE, dflt |-> NoneV]

\* name: T | None = None
Opt(nm, ty, nullable) == [name |-> nm, ty |-> ty, nullable |-> nullable, required |-> FALSE, dflt |-> NoneV]

\* name: list[T] = Field(default_factory=list)
OptList(nm, ty, nullable) == [name |-> nm, ty |-> ty, nullable |-> nullable, required |-> FALSE, dflt |-> ListV(<<>>)]

(***************************************************************************)
(* The enumeration tables of roborock.code_mappings and the constants of   *)
(* roborock.const.  Both modules are imported by containers.py and are     *)
(* not part of the sources at hand; the tables below give each             *)
(* enumeration its registered members (value, symbolic name) in            *)
(* declaration order.  A RoborockEnum member's name is its lower-case      *)
(* symbolic name and keys() lists the names of the table.                  *)
(***************************************************************************)
Member(val, nm) == [val |-> val, name |-> nm]

EnumMembers(en) ==
    CASE en = "RoborockStateCode" ->
            <<Member(IntV(3), "idle"), Member(IntV(5), "cleaning"),
              Member(IntV(8), "charging"), Member(IntV(12), "error")>>
      [] en = "RoborockErrorCode" ->
            <<Member(IntV(0), "none"), Member(IntV(1), "lidar_blocked"),
              Member(IntV(2), "bumper_stuck")>>
      [] en = "RoborockInCleaning" ->
            <<Member(IntV(0), "complete"), Member(IntV(1), "global_clean_not_complete"),
              Member(IntV(2), "zone_clean_not_complete"), Member(IntV(3), "segment_clean_not_complete")>>
      [] en = "RoborockDockTypeCode" ->
            <<Member(IntV(0), "no_dock"), Member(IntV(1), "auto_empty_dock"),
              Member(IntV(3), "empty_wash_fill_dock")>>
      [] en = "RoborockDockErrorCode" ->
            <<Member(IntV(0), "ok"), Member(IntV(34), "duct_blockage"),
              Member(IntV(38), "water_empty")>>
      [] en = "RoborockDockDustCollectionModeCode" ->
            <<Member(IntV(0), "smart"), Member(IntV(1), "light"),
              Member(IntV(2), "balanced"), Member(IntV(4), "max")>>
      [] en = "RoborockDockWashTowelModeCode" ->
            <<Member(IntV(0), "light"), Member(IntV(1), "balanced"), Member(IntV(2), "deep")>>
      [] en = "RoborockStartType" ->
            <<Member(IntV(1), "button"), Member(IntV(2), "app"), Member(IntV(3), "schedule")>>
      [] en = "RoborockCleanType" ->
            <<Member(IntV(1), "all_zone"), Member(IntV(2), "draw_zone"),
              Member(IntV(3), "select_zone")>>
      [] en = "RoborockFinishReason" ->
            <<Member(IntV(21), "manual_interrupt"), Member(IntV(52), "finished_cleaning")>>
      [] en = "RoborockCategory" ->
            <<Member(StrV("roborock.wetdryvac"), "wet_dry_vac"),
              Member(StrV("robot.vacuum.cleaner"), "vacuum")>>
      \* the three base enumerations of Status register no member
      [] en = "RoborockFanPowerCode" -> <<>>
      [] en = "RoborockMopIntensityCode" -> <<>>
      [] en = "RoborockMopModeCode" -> <<>>
      [] en = "RoborockFanSpeedS7" ->
            <<Member(IntV(105), "off"), Member(IntV(101), "quiet"), Member(IntV(102), "balanced"),
              Member(IntV(103), "turbo"), Member(IntV(104), "max"), Member(IntV(106), "custom")>>
      [] en = "RoborockFanSpeedS7MaxV" ->
            <<Member(IntV(105), "off"), Member(IntV(101), "quiet"), Member(IntV(102), "balanced"),
              Member(IntV(103), "turbo"), Member(IntV(104), "max"), Member(IntV(106), "custom"),
              Member(IntV(108), "max_plus")>>
      [] en = "RoborockFanSpeedS6Pure" ->
            <<Member(IntV(105), "gentle"), Member(IntV(101), "quiet"), Member(IntV(102), "balanced"),
              Member(IntV(103), "turbo"), Member(IntV(104), "max"), Member(IntV(106), "custom")>>
      [] en = "RoborockFanSpeedQ7Max" ->
            <<Member(IntV(101), "quiet"), Member(IntV(102), "balanced"),
              Member(IntV(103), "turbo"), Member(IntV(104), "max")>>
      [] en = "RoborockFanSpeedP10" ->
            <<Member(IntV(105), "off"), Member(IntV(101), "quiet"), Member(IntV(102), "balanced"),
              Member(IntV(103), "turbo"), Member(IntV(104), "max"), Member(IntV(106), "custom"),
              Member(IntV(108), "max_plus")>>
      [] en = "RoborockFanSpeedS8MaxVUltra" ->
            <<Member(IntV(105), "off"), Member(IntV(101), "quiet"), Member(IntV(102), "balanced"),
              Member(IntV(103), "turbo"), Member(IntV(104), "max"), Member(IntV(106), "custom"),
              Member(IntV(108), "max_plus"), Member(IntV(110), "smart_mode")>>
      [] en = "RoborockMopIntensityS7" ->
            <<Member(IntV(200), "off"), Member(IntV(201), "mild"), Member(IntV(202), "moderate"),
              Member(IntV(203), "intense"), Member(IntV(204), "custom")>>
      [] en = "RoborockMopIntensityV2" ->
            <<Member(IntV(200), "off"), Member(IntV(201), "low"), Member(IntV(202), "medium"),
              Member(IntV(203), "high"), Member(IntV(207), "custom")>>
      [] en = "RoborockMopIntensityS5Max" ->
            <<Member(IntV(200), "off"), Member(IntV(201), "low"), Member(IntV(202), "medium"),
              Member(IntV(203), "high"), Member(IntV(204), "custom"),
              Member(IntV(207), "custom_water_flow")>>
      [] en = "RoborockMopIntensityS6MaxV" ->
            <<Member(IntV(200), "off"), Member(IntV(201), "low"), Member(IntV(202), "medium"),
              Member(IntV(203), "high"), Member(IntV(204), "custom"),
              Member(IntV(207), "custom_water_flow")>>
      [] en = "RoborockMopIntensityP10" ->
            <<Member(IntV(200), "off"), Member(IntV(201), "low"), Member(IntV(202), "medium"),
              Member(IntV(203), "high"), Member(IntV(204), "custom"),
              Member(IntV(207), "custom_water_flow")>>
      [] en = "RoborockMopIntensityS8MaxVUltra" ->
            <<Member(IntV(200), "off"), Member(IntV(201), "low"), Member(IntV(202), "medium"),
              Member(IntV(203), "high"), Member(IntV(204), "custom"), Member(IntV(208), "max"),
              Member(IntV(209), "smart_mode"), Member(IntV(207), "custom_water_flow")>>
      [] en = "RoborockMopModeS7" ->
            <<Member(IntV(300), "standard"), Member(IntV(301), "deep"),
              Member(IntV(302), "custom"), Member(IntV(303), "deep_plus")>>
      [] en = "RoborockMopModeS8ProUltra" ->
            <<Member(IntV(300), "standard"), Member(IntV(301), "deep"), Member(IntV(303), "deep_plus"),
              Member(IntV(304), "fast"), Member(IntV(302), "custom")>>
      [] en = "RoborockMopModeS8MaxVUltra" ->
            <<Member(IntV(300), "standard"), Member(IntV(301), "deep"), Member(IntV(303), "deep_plus"),
              Member(IntV(304), "fast"), Member(IntV(302), "custom"), Member(IntV(306), "smart_mode")>>

\* the values registered in the table of en
EnumValues(en) == {EnumMembers(en)[i].val : i \in 1..Len(EnumMembers(en))}

\* member.name
EnumName(en, val) ==
    LET i == CHOOSE j \in 1..Len(EnumMembers(en)) : EnumMembers(en)[j].val = val
    IN  EnumMembers(en)[i].name

\* RoborockEnum.keys(): the names of the table, in order
EnumKeys(en) == [i \in 1..Len(EnumMembers(en)) |-> StrV(EnumMembers(en)[i].name)]

\* roborock.const: the replacement thresholds of the consumables, in seconds
MAIN_BRUSH_REPLACE_TIME == 1080000

SIDE_BRUSH_REPLACE_TIME == 720000

FILTER_REPLACE_TIME == 540000

SENSOR_DIRTY_REPLACE_TIME == 108000

(***************************************************************************)
(* Field names that the hooks and the properties refer to.                 *)
(***************************************************************************)
clean_area == <<"c","l","e","a","n","_","a","r","e","a">>

square_meter_clean_area == <<"s","q","u","a","r","e","_","m","e","t","e","r","_","c","l","e","a","n","_","a","r","e","a">>

error_code == <<"e","r","r","o","r","_","c","o","d","e">>

error_code_name == <<"e","r","r","o","r","_","c","o","d","e","_","n","a","m","e">>

state == <<"s","t","a","t","e">>

state_name == <<"s","t","a","t","e","_","n","a","m","e">>

water_box_mode == <<"w","a","t","e","r","_","b","o","x","_","m","o","d","e">>

water_box_mode_name == <<"w","a","t","e","r","_","b","o","x","_","m","o","d","e","_","n","a","m","e">>

fan_power == <<"f","a","n","_","p","o","w","e","r">>

fan_power_options == <<"f","a","n","_","p","o","w","e","r","_","o","p","t","i","o","n","s">>

fan_power_name == <<"f","a","n","_","p","o","w","e","r","_","n","a","m","e">>

mop_mode == <<"m","o","p","_","m","o","d","e">>

mop_mode_name == <<"m","o","p","_","m","o","d","e","_","n","a","m","e">>

begin == <<"b","e","g","i","n">>

begin_datetime == <<"b","e","g","i","n","_","d","a","t","e","t","i","m","e">>

end == <<"e","n","d">>

end_datetime == <<"e","n","d","_","d","a","t","e","t","i","m","e">>

area == <<"a","r","e","a">>

square_meter_area == <<"s","q","u","a","r","e","_","m","e","t","e","r","_","a","r","e","a">>

start_hour == <<"s","t","a","r","t","_","h","o","u","r">>

start_minute == <<"s","t","a","r","t","_","m","i","n","u","t","e">>

end_hour == <<"e","n","d","_","h","o","u","r">>

end_minute == <<"e","n","d","_","m","i","n","u","t","e">>

start_time == <<"s","t","a","r","t","_","t","i","m","e">>

end_time == <<"e","n","d","_","t","i","m","e">>

main_brush_work_time == <<"m","a","i","n","_","b","r","u","s","h","_","w","o","r","k","_","t","i","m","e">>

main_brush_time_left == <<"m","a","i","n","_","b","r","u","s","h","_","t","i","m","e","_","l","e","f","t">>

side_brush_work_time == <<"s","i","d","e","_","b","r","u","s","h","_","w","o","r","k","_","t","i","m","e">>

side_brush_time_left == <<"s","i","d","e","_","b","r","u","s","h","_","t","i","m","e","_","l","e","f","t">>

filter_work_time == <<"f","i","l","t","e","r","_","w","o","r","k","_","t","i","m","e">>

filter_time_left == <<"f","i","l","t","e","r","_","t","i","m","e","_","l","e","f","t">>

sensor_dirty_time == <<"s","e","n","s","o","r","_","d","i","r","t","y","_","t","i","m","e">>

sensor_time_left == <<"s","e","n","s","o","r","_","t","i","m","e","_","l","e","f","t">>

ip == <<"i","p">>

mapFlag == <<"m","a","p","F","l","a","g">>

scope == <<"s","c","o","p","e">>

desc == <<"d","e","s","c">>

value == <<"v","a","l","u","e">>

battery == <<"b","a","t","t","e","r","y">>

(***************************************************************************)
(* The declared fields of the model classes, in declaration order.         *)
(***************************************************************************)
\* class Sub(Base): the fields of Base, those that Sub declares again taking
\* the type of the new declaration in place
Subclass(base, again) ==
    [i \in 1..Len(base) |->
        IF \E j \in 1..Len(again) : again[j].name = base[i].name
        THEN again[CHOOSE j \in 1..Len(again) : again[j].name = base[i].name]
        ELSE base[i]]

\* class RoborockBaseTimer
Fields_RoborockBaseTimer ==
    <<
        Opt(start_hour, T("int"), TRUE),
        Opt(start_minute, T("int"), TRUE),
        Opt(end_hour, T("int"), TRUE),
        Opt(end_minute, T("int"), TRUE),
        Opt(<<"e","n","a","b","l","e","d">>, T("int"), TRUE),  \* enabled
        Opt(start_time, T("time"), TRUE),
        Opt(end_time, T("time"), TRUE)
    >>

\* class Reference
Fields_Reference ==
    <<
        Opt(<<"r">>, T("str"), TRUE),  \* r
        Opt(<<"a">>, T("str"), TRUE),  \* a
        Opt(<<"m">>, T("str"), TRUE),  \* m
        Opt(<<"l">>, T("str"), TRUE)  \* l
    >>

\* class RRiot
Fields_RRiot ==
    <<
        Req(<<"u">>, T("str"), FALSE),  \* u
        Req(<<"s">>, T("str"), FALSE),  \* s
        Req(<<"h">>, T("str"), FALSE),  \* h
        Req(<<"k">>, T("str"), FALSE),  \* k
        Req(<<"r">>, TModel("Reference"), FALSE)  \* r
    >>

\* class UserData
Fields_UserData ==
    <<
        Opt(<<"u","i","d">>, T("int"), TRUE),  \* uid
        Opt(<<"t","o","k","e","n","t","y","p","e">>, T("str"), TRUE),  \* tokentype
        Opt(<<"t","o","k","e","n">>, T("str"), TRUE),  \* token
        Opt(<<"r","r","u","i","d">>, T("str"), TRUE),  \* rruid
        Opt(<<"r","e","g","i","o","n">>, T("str"), TRUE),  \* region
        Opt(<<"c","o","u","n","t","r","y","c","o","d","e">>, T("str"), TRUE),  \* countrycode
        Opt(<<"c","o","u","n","t","r","y">>, T("str"), TRUE),  \* country
        Opt(<<"n","i","c","k","n","a","m","e">>, T("str"), TRUE),  \* nickname
        Opt(<<"r","r","i","o","t">>, TModel("RRiot"), TRUE),  \* rriot
        Opt(<<"t","u","y","a","_","d","e","v","i","c","e","_","s","t","a","t","e">>, T("int"), TRUE),  \* tuya_device_state
        Opt(<<"a","v","a","t","a","r","u","r","l">>, T("str"), TRUE)  \* avatarurl
    >>

\* class HomeDataProductSchema
Fields_HomeDataProductSchema ==
    <<
        Opt(<<"i","d">>, T("Any"), TRUE),  \* id
        Opt(<<"n","a","m","e">>, T("Any"), TRUE),  \* name
        Opt(<<"c","o","d","e">>, T("Any"), TRUE),  \* code
        Opt(<<"m","o","d","e">>, T("Any"), TRUE),  \* mode
        Opt(<<"t","y","p","e">>, T("Any"), TRUE),  \* type
        Opt(<<"p","r","o","d","u","c","t","_","p","r","o","p","e","r","t","y">>, T("Any"), TRUE),  \* product_property
        Opt(desc, T("Any"), TRUE)
    >>

\* class HomeDataProduct
Fields_HomeDataProduct ==
    <<
        Req(<<"i","d">>, T("str"), FALSE),  \* id
        Req(<<"n","a","m","e">>, T("str"), FALSE),  \* name
        Req(<<"m","o","d","e","l">>, T("str"), FALSE),  \* model
        Req(<<"c","a","t","e","g","o","r","y">>, TEnum("RoborockCategory"), FALSE),  \* category
        Opt(<<"c","o","d","e">>, T("str"), TRUE),  \* code
        Opt(<<"i","c","o","n","u","r","l">>, T("str"), TRUE),  \* iconurl
        Opt(<<"a","t","t","r","i","b","u","t","e">>, T("Any"), TRUE),  \* attribute
        Opt(<<"c","a","p","a","b","i","l","i","t","y">>, T("int"), TRUE),  \* capability
        Opt(<<"s","c","h","e","m","a">>, TListOf(TModel("HomeDataProductSchema")), TRUE)  \* schema
    >>

\* class HomeDataDevice
Fields_HomeDataDevice ==
    <<
        Req(<<"d","u","i","d">>, T("str"), FALSE),  \* duid
        Req(<<"n","a","m","e">>, T("str"), FALSE),  \* name
        Req(<<"l","o","c","a","l","_","k","e","y">>, T("str"), FALSE),  \* local_key
        Req(<<"f","v">>, T("str"), FALSE),  \* fv
        Req(<<"p","r","o","d","u","c","t","_","i","d">>, T("str"), FALSE),  \* product_id
        Opt(<<"a","t","t","r","i","b","u","t","e">>, T("Any"), TRUE),  \* attribute
        Opt(<<"a","c","t","i","v","e","_","t","i","m","e">>, T("int"), TRUE),  \* active_time
        Opt(<<"r","u","n","t","i","m","e","_","e","n","v">>, T("Any"), TRUE),  \* runtime_env
        Opt(<<"t","i","m","e","_","z","o","n","e","_","i","d">>, T("str"), TRUE),  \* time_zone_id
        Opt(<<"i","c","o","n","_","u","r","l">>, T("str"), TRUE),  \* icon_url
        Opt(<<"l","o","n">>, T("Any"), TRUE),  \* lon
        Opt(<<"l","a","t">>, T("Any"), TRUE),  \* lat
        Opt(<<"s","h","a","r","e">>, T("Any"), TRUE),  \* share
        Opt(<<"s","h","a","r","e","_","t","i","m","e">>, T("Any"), TRUE),  \* share_time
        Opt(<<"o","n","l","i","n","e">>, T("bool"), TRUE),  \* online
        Opt(<<"p","v">>, T("str"), TRUE),  \* pv
        Opt(<<"r","o","o","m","_","i","d">>, T("Any"), TRUE),  \* room_id
        Opt(<<"t","u","y","a","_","u","u","i","d">>, T("Any"), TRUE),  \* tuya_uuid
        Opt(<<"t","u","y","a","_","m","i","g","r","a","t","e","d">>, T("bool"), TRUE),  \* tuya_migrated
        Opt(<<"e","x","t","r","a">>, T("Any"), TRUE),  \* extra
        Opt(<<"s","n">>, T("str"), TRUE),  \* sn
        Opt(<<"f","e","a","t","u","r","e","_","s","e","t">>, T("str"), TRUE),  \* feature_set
        Opt(<<"n","e","w","_","f","e","a","t","u","r","e","_","s","e","t">>, T("str"), TRUE),  \* new_feature_set
        Opt(<<"d","e","v","i","c","e","_","s","t","a","t","u","s">>, T("dict"), TRUE),  \* device_status
        Opt(<<"s","i","l","e","n","t","_","o","t","a","_","s","w","i","t","c","h">>, T("bool"), TRUE),  \* silent_ota_switch
        Opt(<<"s","e","t","t","i","n","g">>, T("Any"), TRUE),  \* setting
        Opt(<<"f">>, T("bool"), TRUE),  \* f
        Opt(<<"d","e","v","i","c","e","_","f","e","a","t","u","r","e","s">>, TModel("DeviceFeatures"), TRUE)  \* device_features
    >>

\* class DeviceFeatures
Fields_DeviceFeatures ==
    <<
        Req(<<"m","a","p","_","c","a","r","p","e","t","_","a","d","d","_","s","u","p","p","o","r","t","e","d">>, T("bool"), FALSE),  \* map_carpet_add_supported
        Req(<<"s","h","o","w","_","c","l","e","a","n","_","f","i","n","i","s","h","_","r","e","a","s","o","n","_","s","u","p","p","o","r","t","e","d">>, T("bool"), FALSE),  \* show_clean_finish_reason_supported
        Req(<<"r","e","s","e","g","m","e","n","t","_","s","u","p","p","o","r","t","e","d">>, T("bool"), FALSE),  \* resegment_supported
        Req(<<"v","i","d","e","o","_","m","o","n","i","t","o","r","_","s","u","p","p","o","r","t","e","d">>, T("bool"), FALSE),  \* video_monitor_supported
        Req(<<"a","n","y","_","s","t","a","t","e","_","t","r","a","n","s","i","t","_","g","o","t","o","_","s","u","p","p","o","r","t","e","d">>, T("bool"), FALSE),  \* any_state_transit_goto_supported
        Req(<<"f","w","_","f","i","l","t","e","r","_","o","b","s","t","a","c","l","e","_","s","u","p","p","o","r","t","e","d">>, T("bool"), FALSE),  \* fw_filter_obstacle_supported
        Req(<<"v","i","d","e","o","_","s","e","t","t","i","n","g","_","s","u","p","p","o","r","t","e","d">>, T("bool"), FALSE),  \* video_setting_supported
        Req(<<"i","g","n","o","r","e","_","u","n","k","n","o","w","n","_","m","a","p","_","o","b","j","e","c","t","_","s","u","p","p","o","r","t","e","d">>, T("bool"), FALSE),  \* ignore_unknown_map_object_supported
        Req(<<"s","e","t","_","c","h","i","l","d","_","s","u","p","p","o","r","t","e","d">>, T("bool"), FALSE),  \* set_child_supported
        Req(<<"c","a","r","p","e","t","_","s","u","p","p","o","r","t","e","d">>, T("bool"), FALSE),  \* carpet_supported
        Req(<<"m","o","p","_","p","a","t","h","_","s","u","p","p","o","r","t","e","d">>, T("bool"), FALSE),  \* mop_path_supported
        Req(<<"m","u","l","t","i","_","m","a","p","_","s","e","g","m","e","n","t","_","t","i","m","e","r","_","s","u","p","p","o","r","t","e","d">>, T("bool"), FALSE),  \* multi_map_segment_timer_supported
        Req(<<"c","u","s","t","o","m","_","w","a","t","e","r","_","b","o","x","_","d","i","s","t","a","n","c","e","_","s","u","p","p","o","r","t","e","d">>, T("bool"), FALSE),  \* custom_water_box_distance_supported
        Req(<<"w","a","s","h","_","t","h","e","n","_","c","h","a","r","g","e","_","c","m","d","_","s","u","p","p","o","r","t","e","d">>, T("bool"), FALSE),  \* wash_then_charge_cmd_supported
        Req(<<"r","o","o","m","_","n","a","m","e","_","s","u","p","p","o","r","t","e","d">>, T("bool"), FALSE),  \* room_name_supported
        Req(<<"c","u","r","r","e","n","t","_","m","a","p","_","r","e","s","t","o","r","e","_","e","n","a","b","l","e","d">>, T("bool"), FALSE),  \* current_map_restore_enabled
        Req(<<"p","h","o","t","o","_","u","p","l","o","a","d","_","s","u","p","p","o","r","t","e","d">>, T("bool"), FALSE),  \* photo_upload_supported
        Req(<<"s","h","a","k","e","_","m","o","p","_","s","e","t","_","s","u","p","p","o","r","t","e","d">>, T("bool"), FALSE),  \* shake_mop_set_supported
        Req(<<"m","a","p","_","b","e","a","u","t","i","f","y","_","i","n","t","e","r","n","a","l","_","d","e","b","u","g","_","s","u","p","p","o","r","t","e","d">>, T("bool"), FALSE),  \* map_beautify_internal_debug_supported
        Req(<<"n","e","w","_","d","a","t","a","_","f","o","r","_","c","l","e","a","n","_","h","i","s","t","o","r","y">>, T("bool"), FALSE),  \* new_data_for_clean_history
        Req(<<"n","e","w","_","d","a","t","a","_","f","o","r","_","c","l","e","a","n","_","h","i","s","t","o","r","y","_","d","e","t","a","i","l">>, T("bool"), FALSE),  \* new_data_for_clean_history_detail
        Req(<<"f","l","o","w","_","l","e","d","_","s","e","t","t","i","n","g","_","s","u","p","p","o","r","t","e","d">>, T("bool"), FALSE),  \* flow_led_setting_supported
        Req(<<"d","u","s","t","_","c","o","l","l","e","c","t","i","o","n","_","s","e","t","t","i","n","g","_","s","u","p","p","o","r","t","e","d">>, T("bool"), FALSE),  \* dust_collection_setting_supported
        Req(<<"r","p","c","_","r","e","t","r","y","_","s","u","p","p","o","r","t","e","d">>, T("bool"), FALSE),  \* rpc_retry_supported
        Req(<<"a","v","o","i","d","_","c","o","l","l","i","s","i","o","n","_","s","u","p","p","o","r","t","e","d">>, T("bool"), FALSE),  \* avoid_collision_supported
        Req(<<"s","u","p","p","o","r","t","_","s","e","t","_","s","w","i","t","c","h","_","m","a","p","_","m","o","d","e">>, T("bool"), FALSE),  \* support_set_switch_map_mode
        Req(<<"s","u","p","p","o","r","t","_","s","m","a","r","t","_","s","c","e","n","e">>, T("bool"), FALSE),  \* support_smart_scene
        Req(<<"s","u","p","p","o","r","t","_","f","l","o","o","r","_","e","d","i","t">>, T("bool"), FALSE),  \* support_floor_edit
        Req(<<"s","u","p","p","o","r","t","_","f","u","r","n","i","t","u","r","e">>, T("bool"), FALSE),  \* support_furniture
        Req(<<"s","u","p","p","o","r","t","_","r","o","o","m","_","t","a","g">>, T("bool"), FALSE),  \* support_room_tag
        Req(<<"s","u","p","p","o","r","t","_","q","u","i","c","k","_","m","a","p","_","b","u","i","l","d","e","r">>, T("bool"), FALSE),  \* support_quick_map_builder
        Req(<<"s","u","p","p","o","r","t","_","s","m","a","r","t","_","g","l","o","b","a","l","_","c","l","e","a","n","_","w","i","t","h","_","c","u","s","t","o","m","_","m","o","d","e">>, T("bool"), FALSE),  \* support_smart_global_clean_with_custom_mode
        Req(<<"r","e","c","o","r","d","_","a","l","l","o","w","e","d">>, T("bool"), FALSE),  \* record_allowed
        Req(<<"c","a","r","e","f","u","l","_","s","l","o","w","_","m","a","p","_","s","u","p","p","o","r","t","e","d">>, T("bool"), FALSE),  \* careful_slow_map_supported
        Req(<<"e","g","g","_","m","o","d","e","_","s","u","p","p","o","r","t","e","d">>, T("bool"), FALSE),  \* egg_mode_supported
        Req(<<"u","n","s","a","v","e","_","m","a","p","_","r","e","a","s","o","n","_","s","u","p","p","o","r","t","e","d">>, T("bool"), FALSE),  \* unsave_map_reason_supported
        Req(<<"c","a","r","p","e","t","_","s","h","o","w","_","o","n","_","m","a","p">>, T("bool"), FALSE),  \* carpet_show_on_map
        Req(<<"s","u","p","p","o","r","t","e","d","_","v","a","l","l","e","y","_","e","l","e","c","t","r","i","c","i","t","y">>, T("bool"), FALSE),  \* supported_valley_electricity
        Req(<<"d","r","y","i","n","g","_","s","u","p","p","o","r","t","e","d">>, T("bool"), FALSE),  \* drying_supported
        Req(<<"d","o","w","n","l","o","a","d","_","t","e","s","t","_","v","o","i","c","e","_","s","u","p","p","o","r","t","e","d">>, T("bool"), FALSE),  \* download_test_voice_supported
        Req(<<"s","u","p","p","o","r","t","_","b","a","c","k","u","p","_","m","a","p">>, T("bool"), FALSE),  \* support_backup_map
        Req(<<"s","u","p","p","o","r","t","_","c","u","s","t","o","m","_","m","o","d","e","_","i","n","_","c","l","e","a","n","i","n","g">>, T("bool"), FALSE),  \* support_custom_mode_in_cleaning
        Req(<<"s","u","p","p","o","r","t","_","r","e","m","o","t","e","_","c","o","n","t","r","o","l","_","i","n","_","c","a","l","l">>, T("bool"), FALSE),  \* support_remote_control_in_call
        Req(<<"s","u","p","p","o","r","t","_","s","e","t","_","v","o","l","u","m","e","_","i","n","_","c","a","l","l">>, T("bool"), FALSE),  \* support_set_volume_in_call
        Req(<<"s","u","p","p","o","r","t","_","c","l","e","a","n","_","e","s","t","i","m","a","t","e">>, T("bool"), FALSE),  \* support_clean_estimate
        Req(<<"s","u","p","p","o","r","t","_","c","u","s","t","o","m","_","d","n","d">>, T("bool"), FALSE),  \* support_custom_dnd
        Req(<<"c","a","r","p","e","t","_","d","e","e","p","_","c","l","e","a","n","_","s","u","p","p","o","r","t","e","d">>, T("bool"), FALSE),  \* carpet_deep_clean_supported
        Req(<<"s","t","u","c","k","_","z","o","n","e","_","s","u","p","p","o","r","t","e","d">>, T("bool"), FALSE),  \* stuck_zone_supported
        Req(<<"c","u","s","t","o","m","_","d","o","o","r","_","s","i","l","l","_","s","u","p","p","o","r","t","e","d">>, T("bool"), FALSE),  \* custom_door_sill_supported
        Req(<<"c","l","e","a","n","_","r","o","u","t","e","_","f","a","s","t","_","m","o","d","e","_","s","u","p","p","o","r","t","e","d">>, T("bool"), FALSE),  \* clean_route_fast_mode_supported
        Req(<<"c","l","i","f","f","_","z","o","n","e","_","s","u","p","p","o","r","t","e","d">>, T("bool"), FALSE),  \* cliff_zone_supported
        Req(<<"s","m","a","r","t","_","d","o","o","r","_","s","i","l","l","_","s","u","p","p","o","r","t","e","d">>, T("bool"), FALSE),  \* smart_door_sill_supported
        Req(<<"s","u","p","p","o","r","t","_","f","l","o","o","r","_","d","i","r","e","c","t","i","o","n">>, T("bool"), FALSE),  \* support_floor_direction
        Req(<<"w","i","f","i","_","m","a","n","a","g","e","_","s","u","p","p","o","r","t","e","d">>, T("bool"), FALSE),  \* wifi_manage_supported
        Req(<<"b","a","c","k","_","c","h","a","r","g","e","_","a","u","t","o","_","w","a","s","h","_","s","u","p","p","o","r","t","e","d">>, T("bool"), FALSE),  \* back_charge_auto_wash_supported
        Req(<<"s","u","p","p","o","r","t","_","i","n","c","r","e","m","e","n","t","a","l","_","m","a","p">>, T("bool"), FALSE),  \* support_incremental_map
        Req(<<"o","f","f","l","i","n","e","_","m","a","p","_","s","u","p","p","o","r","t","e","d">>, T("bool"), FALSE)  \* offline_map_supported
    >>

\* class HomeDataRoom
Fields_HomeDataRoom ==
    <<
        Req(<<"i","d">>, T("int"), FALSE),  \* id
        Req(<<"n","a","m","e">>, T("str"), FALSE)  \* name
    >>

\* class HomeData
Fields_HomeData ==
    <<
        Req(<<"i","d">>, T("int"), FALSE),  \* id
        Req(<<"n","a","m","e">>, T("str"), FALSE),  \* name
        OptList(<<"p","r","o","d","u","c","t","s">>, TListOf(TModel("HomeDataProduct")), FALSE),  \* products
        OptList(<<"d","e","v","i","c","e","s">>, TListOf(TModel("HomeDataDevice")), FALSE),  \* devices
        OptList(<<"r","e","c","e","i","v","e","d","_","d","e","v","i","c","e","s">>, TListOf(TModel("HomeDataDevice")), FALSE),  \* received_devices
        Opt(<<"l","o","n">>, T("Any"), TRUE),  \* lon
        Opt(<<"l","a","t">>, T("Any"), TRUE),  \* lat
        Opt(<<"g","e","o","_","n","a","m","e">>, T("Any"), TRUE),  \* geo_name
        OptList(<<"r","o","o","m","s">>, TListOf(TModel("HomeDataRoom")), FALSE)  \* rooms
    >>

\* class LoginData
Fields_LoginData ==
    <<
        Req(<<"u","s","e","r","_","d","a","t","a">>, TModel("UserData"), FALSE),  \* user_data
        Req(<<"e","m","a","i","l">>, T("str"), FALSE),  \* email
        Opt(<<"h","o","m","e","_","d","a","t","a">>, TModel("HomeData"), TRUE)  \* home_data
    >>

\* class Status
Fields_Status ==
    <<
        Opt(<<"m","s","g","_","v","e","r">>, T("int"), TRUE),  \* msg_ver
        Opt(<<"m","s","g","_","s","e","q">>, T("int"), TRUE),  \* msg_seq
        Opt(state, TEnum("RoborockStateCode"), TRUE),
        Opt(battery, T("int"), TRUE),
        Opt(<<"c","l","e","a","n","_","t","i","m","e">>, T("int"), TRUE),  \* clean_time
        Opt(clean_area, T("int"), TRUE),
        Opt(square_meter_clean_area, T("float"), TRUE),
        Opt(error_code, TEnum("RoborockErrorCode"), TRUE),
        Opt(<<"m","a","p","_","p","r","e","s","e","n","t">>, T("int"), TRUE),  \* map_present
        Opt(<<"i","n","_","c","l","e","a","n","i","n","g">>, TEnum("RoborockInCleaning"), TRUE),  \* in_cleaning
        Opt(<<"i","n","_","r","e","t","u","r","n","i","n","g">>, T("int"), TRUE),  \* in_returning
        Opt(<<"i","n","_","f","r","e","s","h","_","s","t","a","t","e">>, T("int"), TRUE),  \* in_fresh_state
        Opt(<<"l","a","b","_","s","t","a","t","u","s">>, T("int"), TRUE),  \* lab_status
        Opt(<<"w","a","t","e","r","_","b","o","x","_","s","t","a","t","u","s">>, T("int"), TRUE),  \* water_box_status
        Opt(<<"b","a","c","k","_","t","y","p","e">>, T("int"), TRUE),  \* back_type
        Opt(<<"w","a","s","h","_","p","h","a","s","e">>, T("int"), TRUE),  \* wash_phase
        Opt(<<"w","a","s","h","_","r","e","a","d","y">>, T("int"), TRUE),  \* wash_ready
        Opt(fan_power, TEnum("RoborockFanPowerCode"), TRUE),
        Opt(<<"d","n","d","_","e","n","a","b","l","e","d">>, T("int"), TRUE),  \* dnd_enabled
        Opt(<<"m","a","p","_","s","t","a","t","u","s">>, T("int"), TRUE),  \* map_status
        Opt(<<"i","s","_","l","o","c","a","t","i","n","g">>, T("int"), TRUE),  \* is_locating
        Opt(<<"l","o","c","k","_","s","t","a","t","u","s">>, T("int"), TRUE),  \* lock_status
        Opt(water_box_mode, TEnum("RoborockMopIntensityCode"), TRUE),
        Opt(<<"w","a","t","e","r","_","b","o","x","_","c","a","r","r","i","a","g","e","_","s","t","a","t","u","s">>, T("int"), TRUE),  \* water_box_carriage_status
        Opt(<<"m","o","p","_","f","o","r","b","i","d","d","e","n","_","e","n","a","b","l","e">>, T("int"), TRUE),  \* mop_forbidden_enable
        Opt(<<"c","a","m","e","r","a","_","s","t","a","t","u","s">>, T("int"), TRUE),  \* camera_status
        Opt(<<"i","s","_","e","x","p","l","o","r","i","n","g">>, T("int"), TRUE),  \* is_exploring
        Opt(<<"h","o","m","e","_","s","e","c","_","s","t","a","t","u","s">>, T("int"), TRUE),  \* home_sec_status
        Opt(<<"h","o","m","e","_","s","e","c","_","e","n","a","b","l","e","_","p","a","s","s","w","o","r","d">>, T("int"), TRUE),  \* home_sec_enable_password
        Opt(<<"a","d","b","u","m","p","e","r","_","s","t","a","t","u","s">>, TListOf(T("int")), TRUE),  \* adbumper_status
        Opt(<<"w","a","t","e","r","_","s","h","o","r","t","a","g","e","_","s","t","a","t","u","s">>, T("int"), TRUE),  \* water_shortage_status
        Opt(<<"d","o","c","k","_","t","y","p","e">>, TEnum("RoborockDockTypeCode"), TRUE),  \* dock_type
        Opt(<<"d","u","s","t","_","c","o","l","l","e","c","t","i","o","n","_","s","t","a","t","u","s">>, T("int"), TRUE),  \* dust_collection_status
        Opt(<<"a","u","t","o","_","d","u","s","t","_","c","o","l","l","e","c","t","i","o","n">>, T("int"), TRUE),  \* auto_dust_collection
        Opt(<<"a","v","o","i","d","_","c","o","u","n","t">>, T("int"), TRUE),  \* avoid_count
        Opt(mop_mode, TEnum("RoborockMopModeCode"), TRUE),
        Opt(<<"d","e","b","u","g","_","m","o","d","e">>, T("int"), TRUE),  \* debug_mode
        Opt(<<"c","o","l","l","i","s","i","o","n","_","a","v","o","i","d","_","s","t","a","t","u","s">>, T("int"), TRUE),  \* collision_avoid_status
        Opt(<<"s","w","i","t","c","h","_","m","a","p","_","m","o","d","e">>, T("int"), TRUE),  \* switch_map_mode
        Opt(<<"d","o","c","k","_","e","r","r","o","r","_","s","t","a","t","u","s">>, TEnum("RoborockDockErrorCode"), TRUE),  \* dock_error_status
        Opt(<<"c","h","a","r","g","e","_","s","t","a","t","u","s">>, T("int"), TRUE),  \* charge_status
        Opt(<<"u","n","s","a","v","e","_","m","a","p","_","r","e","a","s","o","n">>, T("int"), TRUE),  \* unsave_map_reason
        Opt(<<"u","n","s","a","v","e","_","m","a","p","_","f","l","a","g">>, T("int"), TRUE),  \* unsave_map_flag
        Opt(<<"w","a","s","h","_","s","t","a","t","u","s">>, T("int"), TRUE),  \* wash_status
        Opt(<<"d","i","s","t","a","n","c","e","_","o","f","f">>, T("int"), TRUE),  \* distance_off
        Opt(<<"i","n","_","w","a","r","m","u","p">>, T("int"), TRUE),  \* in_warmup
        Opt(<<"d","r","y","_","s","t","a","t","u","s">>, T("int"), TRUE),  \* dry_status
        Opt(<<"r","d","t">>, T("int"), TRUE),  \* rdt
        Opt(<<"c","l","e","a","n","_","p","e","r","c","e","n","t">>, T("int"), TRUE),  \* clean_percent
        Opt(<<"r","s","s">>, T("int"), TRUE),  \* rss
        Opt(<<"d","s","s">>, T("int"), TRUE),  \* dss
        Opt(<<"c","o","m","m","o","n","_","s","t","a","t","u","s">>, T("int"), TRUE),  \* common_status
        Opt(<<"c","o","r","n","e","r","_","c","l","e","a","n","_","m","o","d","e">>, T("int"), TRUE),  \* corner_clean_mode
        Opt(error_code_name, T("str"), TRUE),
        Opt(state_name, T("str"), TRUE),
        Opt(water_box_mode_name, T("str"), TRUE),
        OptList(fan_power_options, TListOf(T("str")), FALSE),
        Opt(fan_power_name, T("str"), TRUE),
        Opt(mop_mode_name, T("str"), TRUE)
    >>

\* class S4MaxStatus
Fields_S4MaxStatus ==
    Subclass(Fields_Status, <<
        Opt(fan_power, TEnum("RoborockFanSpeedS6Pure"), TRUE),
        Opt(water_box_mode, TEnum("RoborockMopIntensityS7"), TRUE),
        Opt(mop_mode, TEnum("RoborockMopModeS7"), TRUE)
    >>)

\* class S5MaxStatus
Fields_S5MaxStatus ==
    Subclass(Fields_Status, <<
        Opt(fan_power, TEnum("RoborockFanSpeedS6Pure"), TRUE),
        Opt(water_box_mode, TEnum("RoborockMopIntensityS5Max"), TRUE)
    >>)

\* class Q7MaxStatus
Fields_Q7MaxStatus ==
    Subclass(Fields_Status, <<
        Opt(fan_power, TEnum("RoborockFanSpeedQ7Max"), TRUE),
        Opt(water_box_mode, TEnum("RoborockMopIntensityV2"), TRUE)
    >>)

\* class S6MaxVStatus
Fields_S6MaxVStatus ==
    Subclass(Fields_Status, <<
        Opt(fan_power, TEnum("RoborockFanSpeedS7MaxV"), TRUE),
        Opt(water_box_mode, TEnum("RoborockMopIntensityS6MaxV"), TRUE)
    >>)

\* class S6PureStatus
Fields_S6PureStatus ==
    Subclass(Fields_Status, <<
        Opt(fan_power, TEnum("RoborockFanSpeedS6Pure"), TRUE)
    >>)

\* class S7MaxVStatus
Fields_S7MaxVStatus ==
    Subclass(Fields_Status, <<
        Opt(fan_power, TEnum("RoborockFanSpeedS7MaxV"), TRUE),
        Opt(water_box_mode, TEnum("RoborockMopIntensityS7"), TRUE),
        Opt(mop_mode, TEnum("RoborockMopModeS7"), TRUE)
    >>)

\* class S7Status
Fields_S7Status ==
    Subclass(Fields_Status, <<
        Opt(fan_power, TEnum("RoborockFanSpeedS7"), TRUE),
        Opt(water_box_mode, TEnum("RoborockMopIntensityS7"), TRUE),
        Opt(mop_mode, TEnum("RoborockMopModeS7"), TRUE)
    >>)

\* class S8ProUltraStatus
Fields_S8ProUltraStatus ==
    Subclass(Fields_Status, <<
        Opt(fan_power, TEnum("RoborockFanSpeedS7MaxV"), TRUE),
        Opt(water_box_mode, TEnum("RoborockMopIntensityS7"), TRUE),
        Opt(mop_mode, TEnum("RoborockMopModeS8ProUltra"), TRUE)
    >>)

\* class S8Status
Fields_S8Status ==
    Subclass(Fields_Status, <<
        Opt(fan_power, TEnum("RoborockFanSpeedS7MaxV"), TRUE),
        Opt(water_box_mode, TEnum("RoborockMopIntensityS7"), TRUE),
        Opt(mop_mode, TEnum("RoborockMopModeS8ProUltra"), TRUE)
    >>)

\* class P10Status
Fields_P10Status ==
    Subclass(Fields_Status, <<
        Opt(fan_power, TEnum("RoborockFanSpeedP10"), TRUE),
        Opt(water_box_mode, TEnum("RoborockMopIntensityP10"), TRUE),
        Opt(mop_mode, TEnum("RoborockMopModeS8ProUltra"), TRUE)
    >>)

\* class S8MaxvUltraStatus
Fields_S8MaxvUltraStatus ==
    Subclass(Fields_Status, <<
        Opt(fan_power, TEnum("RoborockFanSpeedS8MaxVUltra"), TRUE),
        Opt(water_box_mode, TEnum("RoborockMopIntensityS8MaxVUltra"), TRUE),
        Opt(mop_mode, TEnum("RoborockMopModeS8MaxVUltra"), TRUE)
    >>)

\* class CleanSummary
Fields_CleanSummary ==
    <<
        Opt(<<"c","l","e","a","n","_","t","i","m","e">>, T("int"), TRUE),  \* clean_time
        Opt(clean_area, T("int"), TRUE),
        Opt(square_meter_clean_area, T("float"), TRUE),
        Opt(<<"c","l","e","a","n","_","c","o","u","n","t">>, T("int"), TRUE),  \* clean_count
        Opt(<<"d","u","s","t","_","c","o","l","l","e","c","t","i","o","n","_","c","o","u","n","t">>, T("int"), TRUE),  \* dust_collection_count
        Opt(<<"r","e","c","o","r","d","s">>, TListOf(T("int")), TRUE),  \* records
        Opt(<<"l","a","s","t","_","c","l","e","a","n","_","t">>, T("int"), TRUE)  \* last_clean_t
    >>

\* class CleanRecord
Fields_CleanRecord ==
    <<
        Opt(begin, T("int"), TRUE),
        Opt(begin_datetime, T("datetime"), TRUE),
        Opt(end, T("int"), TRUE),
        Opt(end_datetime, T("datetime"), TRUE),
        Opt(<<"d","u","r","a","t","i","o","n">>, T("int"), TRUE),  \* duration
        Opt(area, T("int"), TRUE),
        Opt(square_meter_area, T("float"), TRUE),
        Opt(<<"e","r","r","o","r">>, T("int"), TRUE),  \* error
        Opt(<<"c","o","m","p","l","e","t","e">>, T("int"), TRUE),  \* complete
        Opt(<<"s","t","a","r","t","_","t","y","p","e">>, TEnum("RoborockStartType"), TRUE),  \* start_type
        Opt(<<"c","l","e","a","n","_","t","y","p","e">>, TEnum("RoborockCleanType"), TRUE),  \* clean_type
        Opt(<<"f","i","n","i","s","h","_","r","e","a","s","o","n">>, TEnum("RoborockFinishReason"), TRUE),  \* finish_reason
        Opt(<<"d","u","s","t","_","c","o","l","l","e","c","t","i","o","n","_","s","t","a","t","u","s">>, T("int"), TRUE),  \* dust_collection_status
        Opt(<<"a","v","o","i","d","_","c","o","u","n","t">>, T("int"), TRUE),  \* avoid_count
        Opt(<<"w","a","s","h","_","c","o","u","n","t">>, T("int"), TRUE),  \* wash_count
        Opt(<<"m","a","p","_","f","l","a","g">>, T("int"), TRUE)  \* map_flag
    >>

\* class Consumable
Fields_Consumable ==
    <<
        Opt(main_brush_work_time, T("int"), TRUE),
        Opt(side_brush_work_time, T("int"), TRUE),
        Opt(filter_work_time, T("int"), TRUE),
        Opt(<<"f","i","l","t","e","r","_","e","l","e","m","e","n","t","_","w","o","r","k","_","t","i","m","e">>, T("int"), TRUE),  \* filter_element_work_time
        Opt(sensor_dirty_time, T("int"), TRUE),
        Opt(<<"s","t","r","a","i","n","e","r","_","w","o","r","k","_","t","i","m","e","s">>, T("int"), TRUE),  \* strainer_work_times
        Opt(<<"d","u","s","t","_","c","o","l","l","e","c","t","i","o","n","_","w","o","r","k","_","t","i","m","e","s">>, T("int"), TRUE),  \* dust_collection_work_times
        Opt(<<"c","l","e","a","n","i","n","g","_","b","r","u","s","h","_","w","o","r","k","_","t","i","m","e","s">>, T("int"), TRUE),  \* cleaning_brush_work_times
        Opt(<<"m","o","p","r","o","l","l","e","r","_","w","o","r","k","_","t","i","m","e">>, T("int"), TRUE),  \* moproller_work_time
        Opt(main_brush_time_left, T("int"), TRUE),
        Opt(side_brush_time_left, T("int"), TRUE),
        Opt(filter_time_left, T("int"), TRUE),
        Opt(sensor_time_left, T("int"), TRUE),
        Opt(<<"s","t","r","a","i","n","e","r","_","t","i","m","e","_","l","e","f","t">>, T("int"), TRUE),  \* strainer_time_left
        Opt(<<"d","u","s","t","_","c","o","l","l","e","c","t","i","o","n","_","t","i","m","e","_","l","e","f","t">>, T("int"), TRUE),  \* dust_collection_time_left
        Opt(<<"c","l","e","a","n","i","n","g","_","b","r","u","s","h","_","t","i","m","e","_","l","e","f","t">>, T("int"), TRUE),  \* cleaning_brush_time_left
        Opt(<<"m","o","p","_","r","o","l","l","e","r","_","t","i","m","e","_","l","e","f","t">>, T("int"), TRUE)  \* mop_roller_time_left
    >>

\* class MultiMapsListMapInfoBakMaps
Fields_MultiMapsListMapInfoBakMaps ==
    <<
        Opt(<<"m","a","p","f","l","a","g">>, T("Any"), TRUE),  \* mapflag
        Opt(<<"a","d","d","_","t","i","m","e">>, T("Any"), TRUE)  \* add_time
    >>

\* class MultiMapsListMapInfo
Fields_MultiMapsListMapInfo ==
    <<
        Req(mapFlag, T("int"), FALSE),
        Req(<<"n","a","m","e">>, T("str"), FALSE),  \* name
        Opt(<<"a","d","d","_","t","i","m","e">>, T("Any"), TRUE),  \* add_time
        Opt(<<"l","e","n","g","t","h">>, T("Any"), TRUE),  \* length
        Opt(<<"b","a","k","_","m","a","p","s">>, TListOf(TModel("MultiMapsListMapInfoBakMaps")), TRUE)  \* bak_maps
    >>

\* class MultiMapsList
Fields_MultiMapsList ==
    <<
        Opt(<<"m","a","x","_","m","u","l","t","i","_","m","a","p">>, T("int"), TRUE),  \* max_multi_map
        Opt(<<"m","a","x","_","b","a","k","_","m","a","p">>, T("int"), TRUE),  \* max_bak_map
        Opt(<<"m","u","l","t","i","_","m","a","p","_","c","o","u","n","t">>, T("int"), TRUE),  \* multi_map_count
        Opt(<<"m","a","p","_","i","n","f","o">>, TListOf(TModel("MultiMapsListMapInfo")), TRUE)  \* map_info
    >>

\* class DustCollectionMode
Fields_DustCollectionMode ==
    <<
        Opt(<<"m","o","d","e">>, TEnum("RoborockDockDustCollectionModeCode"), TRUE)  \* mode
    >>

\* class WashTowelMode
Fields_WashTowelMode ==
    <<
        Opt(<<"w","a","s","h","_","m","o","d","e">>, TEnum("RoborockDockWashTowelModeCode"), TRUE)  \* wash_mode
    >>

\* class NetworkInfo
Fields_NetworkInfo ==
    <<
        Req(ip, T("str"), FALSE),
        Opt(<<"s","s","i","d">>, T("str"), TRUE),  \* ssid
        Opt(<<"m","a","c">>, T("str"), TRUE),  \* mac
        Opt(<<"b","s","s","i","d">>, T("str"), TRUE),  \* bssid
        Opt(<<"r","s","s","i">>, T("int"), TRUE)  \* rssi
    >>

\* class RoborockProductStateValue
Fields_RoborockProductStateValue ==
    <<
        Req(value, T("list"), FALSE),
        Req(desc, T("dict"), FALSE)
    >>

\* class RoborockProductState
Fields_RoborockProductState ==
    <<
        Req(<<"d","p","s">>, T("int"), FALSE),  \* dps
        Req(desc, T("dict"), FALSE),
        Req(value, TListOf(TModel("RoborockProductStateValue")), FALSE)
    >>

\* class RoborockProductSpec
Fields_RoborockProductSpec ==
    <<
        Req(state, TModel("RoborockProductState"), FALSE),
        Opt(battery, T("dict"), TRUE),
        Opt(<<"d","r","y","_","c","o","u","n","t","d","o","w","n">>, T("dict"), TRUE),  \* dry_countdown
        Opt(<<"e","x","t","r","a">>, T("dict"), TRUE),  \* extra
        Opt(<<"o","f","f","p","e","a","k">>, T("dict"), TRUE),  \* offpeak
        Opt(<<"c","o","u","n","t","d","o","w","n">>, T("dict"), TRUE),  \* countdown
        Opt(<<"m","o","d","e">>, T("dict"), TRUE),  \* mode
        Opt(<<"o","t","a","_","n","f","o">>, T("dict"), TRUE),  \* ota_nfo
        Opt(<<"p","a","u","s","e">>, T("dict"), TRUE),  \* pause
        Opt(<<"p","r","o","g","r","a","m">>, T("dict"), TRUE),  \* program
        Opt(<<"s","h","u","t","d","o","w","n">>, T("dict"), TRUE),  \* shutdown
        Opt(<<"w","a","s","h","i","n","g","_","l","e","f","t">>, T("dict"), TRUE)  \* washing_left
    >>

\* class RoborockProduct
Fields_RoborockProduct ==
    <<
        Req(<<"i","d">>, T("int"), FALSE),  \* id
        Req(<<"n","a","m","e">>, T("str"), FALSE),  \* name
        Req(<<"m","o","d","e","l">>, T("str"), FALSE),  \* model
        Req(<<"p","a","c","k","a","g","e","n","a","m","e">>, T("str"), FALSE),  \* packagename
        Req(<<"s","s","i","d">>, T("str"), FALSE),  \* ssid
        Req(<<"p","i","c","u","r","l">>, T("str"), FALSE),  \* picurl
        Req(<<"c","a","r","d","p","i","c","u","r","l">>, T("str"), FALSE),  \* cardpicurl
        Req(<<"m","e","d","i","u","m","_","c","a","r","d","p","i","c","u","r","l">>, T("str"), FALSE),  \* medium_cardpicurl
        Req(<<"r","e","s","e","t","w","i","f","i","p","i","c","u","r","l">>, T("str"), FALSE),  \* resetwifipicurl
        Req(<<"r","e","s","e","t","w","i","f","i","t","e","x","t">>, T("dict"), FALSE),  \* resetwifitext
        Req(<<"t","u","y","a","i","d">>, T("str"), FALSE),  \* tuyaid
        Req(<<"s","t","a","t","u","s">>, T("int"), FALSE),  \* status
        Req(<<"r","r","i","o","t","i","d">>, T("str"), FALSE),  \* rriotid
        Req(<<"c","a","r","d","s","p","e","c">>, T("str"), FALSE),  \* cardspec
        Req(<<"p","i","c","t","u","r","e","s">>, T("list"), FALSE),  \* pictures
        Req(<<"n","c","_","m","o","d","e">>, T("str"), FALSE),  \* nc_mode
        Req(scope, T("None"), FALSE),
        Req(<<"p","r","o","d","u","c","t","_","t","a","g","s">>, T("list"), FALSE),  \* product_tags
        Req(<<"a","g","r","e","e","m","e","n","t","s">>, T("list"), FALSE),  \* agreements
        Req(<<"p","l","u","g","i","n","_","p","i","c","_","u","r","l">>, T("None"), FALSE),  \* plugin_pic_url
        Opt(<<"p","r","o","d","u","c","t","s","_","s","p","e","c","i","f","i","c","a","t","i","o","n">>, TModel("RoborockProductSpec"), TRUE)  \* products_specification
    >>

(***************************************************************************)
(* The class registry                                                      *)
(***************************************************************************)
\* the declared fields of class cn (DnDTimer and ValleyElectricityTimer
\* declare nothing beyond RoborockBaseTimer)
FieldsOf(cn) ==
    CASE cn = "RoborockBaseTimer" -> Fields_RoborockBaseTimer
      [] cn = "DnDTimer" -> Fields_RoborockBaseTimer
      [] cn = "ValleyElectricityTimer" -> Fields_RoborockBaseTimer
      [] cn = "Reference" -> Fields_Reference
      [] cn = "RRiot" -> Fields_RRiot
      [] cn = "UserData" -> Fields_UserData
      [] cn = "HomeDataProductSchema" -> Fields_HomeDataProductSchema
      [] cn = "HomeDataProduct" -> Fields_HomeDataProduct
      [] cn = "HomeDataDevice" -> Fields_HomeDataDevice
      [] cn = "DeviceFeatures" -> Fields_DeviceFeatures
      [] cn = "HomeDataRoom" -> Fields_HomeDataRoom
      [] cn = "HomeData" -> Fields_HomeData
      [] cn = "LoginData" -> Fields_LoginData
      [] cn = "Status" -> Fields_Status
      [] cn = "S4MaxStatus" -> Fields_S4MaxStatus
      [] cn = "S5MaxStatus" -> Fields_S5MaxStatus
      [] cn = "Q7MaxStatus" -> Fields_Q7MaxStatus
      [] cn = "S6MaxVStatus" -> Fields_S6MaxVStatus
      [] cn = "S6PureStatus" -> Fields_S6PureStatus
      [] cn = "S7MaxVStatus" -> Fields_S7MaxVStatus
      [] cn = "S7Status" -> Fields_S7Status
      [] cn = "S8ProUltraStatus" -> Fields_S8ProUltraStatus
      [] cn = "S8Status" -> Fields_S8Status
      [] cn = "P10Status" -> Fields_P10Status
      [] cn = "S8MaxvUltraStatus" -> Fields_S8MaxvUltraStatus
      [] cn = "CleanSummary" -> Fields_CleanSummary
      [] cn = "CleanRecord" -> Fields_CleanRecord
      [] cn = "Consumable" -> Fields_Consumable
      [] cn = "MultiMapsListMapInfoBakMaps" -> Fields_MultiMapsListMapInfoBakMaps
      [] cn = "MultiMapsListMapInfo" -> Fields_MultiMapsListMapInfo
      [] cn = "MultiMapsList" -> Fields_MultiMapsList
      [] cn = "DustCollectionMode" -> Fields_DustCollectionMode
      [] cn = "WashTowelMode" -> Fields_WashTowelMode
      [] cn = "NetworkInfo" -> Fields_NetworkInfo
      [] cn = "RoborockProductStateValue" -> Fields_RoborockProductStateValue
      [] cn = "RoborockProductState" -> Fields_RoborockProductState
      [] cn = "RoborockProductSpec" -> Fields_RoborockProductSpec
      [] cn = "RoborockProduct" -> Fields_RoborockProduct

\* the subclasses of Status
StatusVariants ==
    {"S4MaxStatus", "S5MaxStatus", "Q7MaxStatus", "S6MaxVStatus", "S6PureStatus",
     "S7MaxVStatus", "S7Status", "S8ProUltraStatus", "S8Status", "P10Status",
     "S8MaxvUltraStatus"}

IsStatusClass(cn) == cn = "Status" \/ cn \in StatusVariants

IsTimerClass(cn) == cn \in {"RoborockBaseTimer", "DnDTimer", "ValleyElectricityTimer"}

FieldNames(cn) == {FieldsOf(cn)[i].name : i \in 1..Len(FieldsOf(cn))}

\* cls._ignore_keys
ignore_keys(cn) ==
    IF cn \in {"MultiMapsListMapInfo", "MultiMapsList"} THEN {mapFlag} ELSE {}

\* the variant of the configuration that refuses keys that name no field
model_config_extra_Forbid == "forbid"

\* RoborockBase.model_config = ConfigDict(arbitrary_types_allowed=True): a key
\* of the input that names no field is handled by pydantic's default, "ignore"
model_config_extra == "ignore"

(***************************************************************************)
(* Arithmetic of the derived fields                                        *)
(***************************************************************************)
\* the radix of the two-part representation of large ints
Billion == 10 ^ 9

\* round(n / den, 0) on exact quotients, ties to even.  (round(x / 1000000, 1)
\* is this with den = 100000, in tenths; on an exact tie Python rounds the
\* binary float nearest to x / 1000000, so tie inputs are kept out of the
\* inputs.)
RoundDiv(n, den) ==
    LET q  == n \div den
        rm == n % den
    IN  IF 2 * rm > den THEN q + 1
        ELSE IF 2 * rm < den THEN q
        ELSE IF q % 2 = 0 THEN q ELSE q + 1

\* round(x / 1000000, 1) for an int value x
square_meters(x) ==
    IF x.t = "int" THEN FloatV(RoundDiv(x.v, 100000))
    ELSE FloatV(x.v[1] * 10000 + RoundDiv(x.v[2], 100000))

\* the variant of the truth test that takes every int for true
Truthy_NotNone(x) == x # NoneV

\* bool(x) of an int or None
Truthy(x) == x # NoneV /\ x # IntV(0) /\ x # BigV(0, 0)

\* datetime.datetime.fromtimestamp(x).astimezone(timezone.utc), the local zone
\* being UTC: a ValueError beyond year 9999 (253402300799), an OSError where
\* the platform's localtime() overflows (from 67768036191676800)
fromtimestamp_utc(x) ==
    IF x.t = "int"
    THEN Return(DatetimeV(x.v \div Billion, x.v % Billion))
    ELSE LET hi == x.v[1]
             lo == x.v[2]
         IN  IF hi > 67768036 \/ (hi = 67768036 /\ lo >= 191676800)
             THEN Raise("OSError", "Value too large for defined data type")
             ELSE IF hi > 253 \/ (hi = 253 /\ lo > 402300799)
             THEN Raise("ValueError", "year is out of range")
             ELSE Return(DatetimeV(hi, lo))

\* datetime.time(hour=hh, minute=mm)
datetime_time(hh, mm) ==
    IF hh.t # "int" \/ hh.v < 0 \/ hh.v > 23
    THEN Raise("ValueError", "hour must be in 0..23")
    ELSE IF mm.t # "int" \/ mm.v < 0 \/ mm.v > 59
    THEN Raise("ValueError", "minute must be in 0..59")
    ELSE Return(TimeV(hh.v, mm.v))

(***************************************************************************)
(* The hooks that run when an instance is built                            *)
(***************************************************************************)
\* Status.model_post_init, on the attributes of the instance: the area is
\* always assigned, each name (and the options) only when its source is set
Status_model_post_init(at) ==
    Return([nm \in DOMAIN at |->
        CASE nm = square_meter_clean_area ->
                IF at[clean_area] # NoneV THEN square_meters(at[clean_area]) ELSE NoneV
          [] nm = error_code_name /\ at[error_code] # NoneV -> StrV(EnumName(at[error_code].v[1], at[error_code].v[2]))
          [] nm = state_name /\ at[state] # NoneV -> StrV(EnumName(at[state].v[1], at[state].v[2]))
          [] nm = water_box_mode_name /\ at[water_box_mode] # NoneV -> StrV(EnumName(at[water_box_mode].v[1], at[water_box_mode].v[2]))
          [] nm = fan_power_options /\ at[fan_power] # NoneV ->
                ListV(EnumKeys(at[fan_power].v[1]))
          [] nm = fan_power_name /\ at[fan_power] # NoneV -> StrV(EnumName(at[fan_power].v[1], at[fan_power].v[2]))
          [] nm = mop_mode_name /\ at[mop_mode] # NoneV -> StrV(EnumName(at[mop_mode].v[1], at[mop_mode].v[2]))
          [] OTHER -> at[nm]])

\* CleanSummary.model_post_init
CleanSummary_model_post_init(at) ==
    Return([at EXCEPT ![square_meter_clean_area] =
               IF at[clean_area] # NoneV THEN square_meters(at[clean_area]) ELSE NoneV])

\* CleanRecord.model_post_init
CleanRecord_model_post_init(at) ==
    LET a1 == [at EXCEPT ![square_meter_area] =
                  IF at[area] # NoneV THEN square_meters(at[area]) ELSE NoneV]
        b  == IF Truthy(a1[begin]) THEN fromtimestamp_utc(a1[begin]) ELSE Return(NoneV)
        e  == IF Truthy(a1[end]) THEN fromtimestamp_utc(a1[end]) ELSE Return(NoneV)
    IN  IF Raised(b) THEN b
        ELSE IF Raised(e) THEN e
        ELSE Return([a1 EXCEPT ![begin_datetime] = b.v, ![end_datetime] = e.v])

\* the statements of RoborockBaseTimer.__init__ after super().__init__(**data)
RoborockBaseTimer_init(at) ==
    LET st == IF at[start_hour] # NoneV /\ at[start_minute] # NoneV
              THEN datetime_time(at[start_hour], at[start_minute]) ELSE Return(NoneV)
        en == IF at[end_hour] # NoneV /\ at[end_minute] # NoneV
              THEN datetime_time(at[end_hour], at[end_minute]) ELSE Return(NoneV)
    IN  IF Raised(st) THEN st
        ELSE IF Raised(en) THEN en
        ELSE Return([at EXCEPT ![start_time] = st.v, ![end_time] = en.v])

\* What runs on a new instance of cn once its fields are validated.  pydantic
\* calls model_post_init, and the class's own __init__ when it has one; it
\* never calls __post_init__ (a dataclass hook), so Consumable.__post_init__
\* and RoborockProduct.__post_init__ do not run.
post_init(cn, at) ==
    CASE IsStatusClass(cn) -> Status_model_post_init(at)
      [] cn = "CleanSummary" -> CleanSummary_model_post_init(at)
      [] cn = "CleanRecord" -> CleanRecord_model_post_init(at)
      [] IsTimerClass(cn) -> RoborockBaseTimer_init(at)
      [] OTHER -> Return(at)

(***************************************************************************)
(* pydantic validation (lax mode) of the values above                      *)
(***************************************************************************)
\* The outcome of validating several items in order: an exception that is
\* not a ValueError leaves at once; ValueErrors are collected into one
\* ValidationError.
Combine(rs) ==
    ValueOf({
        IF \E i \in 1..Len(r) : Raised(r[i]) /\ ~IsValueError(ExcOf(r[i]))
        THEN r[CHOOSE i \in 1..Len(r) :
                  /\ Raised(r[i]) /\ ~IsValueError(ExcOf(r[i]))
                  /\ \A j \in 1..(i-1) : ~(Raised(r[j]) /\ ~IsValueError(ExcOf(r[j])))]
        ELSE IF \E i \in 1..Len(r) : Raised(r[i])
        THEN Raise("ValidationError", CauseOf(r[CHOOSE i \in 1..Len(r) :
                  /\ Raised(r[i]) /\ \A j \in 1..(i-1) : ~Raised(r[j])]))
        ELSE Return(ListV([i \in 1..Len(r) |-> r[i].v]))
      : r \in {rs}})

\* a value without a structure of its own against a type that is a bare name
validate_scalar(kn, x) ==
    CASE kn = "Any" -> Return(x)
      [] kn = "int" ->
            IF x.t \in {"int", "bigint"} THEN Return(x)
            ELSE IF x.t = "bool" THEN Return(IntV(IF x.v THEN 1 ELSE 0))
            ELSE IF x.t = "float" /\ x.v % 10 = 0 THEN Return(IntV(x.v \div 10))
            ELSE IF x.t = "enum" /\ x.v[2].t = "int" THEN Return(x.v[2])
            ELSE Raise("ValidationError", "int_type")
      [] kn = "float" ->
            IF x.t = "float" THEN Return(x)
            ELSE IF x.t = "int" /\ x.v < 100000000 /\ x.v > -100000000 THEN Return(FloatV(x.v * 10))
            ELSE Raise("ValidationError", "float_type")
      [] kn = "str" ->
            IF x.t = "str" THEN Return(x) ELSE Raise("ValidationError", "string_type")
      [] kn = "bool" ->
            IF x.t = "bool" THEN Return(x)
            ELSE IF x \in {IntV(0), IntV(1)} THEN Return(BoolV(x = IntV(1)))
            ELSE Raise("ValidationError", "bool_type")
      [] kn = "dict" ->
            IF x.t = "dict" THEN Return(x) ELSE Raise("ValidationError", "dict_type")
      [] kn = "list" ->
            IF x.t = "list" THEN Return(x) ELSE Raise("ValidationError", "list_type")
      [] kn = "None" -> Raise("ValidationError", "none_required")
      [] kn = "datetime" ->
            IF x.t = "datetime" THEN Return(x)
            ELSE IF x.t = "int" /\ x.v >= 0 THEN Return(DatetimeV(x.v \div Billion, x.v % Billion))
            ELSE Raise("ValidationError", "datetime_type")
      [] kn = "time" ->
            IF x.t = "time" THEN Return(x) ELSE Raise("ValidationError", "time_type")

\* a value against Enum type en: a registered value, or a member carrying one
validate_enum(en, x) ==
    LET raw == IF x.t = "enum" THEN x.v[2] ELSE x
    IN  IF raw \in EnumValues(en) THEN Return(EnumV(en, raw))
        ELSE Raise("ValidationError", "enum")

RECURSIVE model_validate(_, _)
RECURSIVE validate_value(_, _, _)

\* value x against "ty" or, when nullable, "ty | None"
validate_value(ty, nullable, x) ==
    IF x = NoneV
    THEN IF nullable \/ ty.k \in {"None", "Any"} THEN Return(NoneV)
         ELSE Raise("ValidationError", "none_not_allowed")
    ELSE CASE ty.k = "enum" -> validate_enum(ty.en, x)
           [] ty.k = "model" ->
                IF IsDict(x) THEN model_validate(ty.cn, x.v)
                ELSE IF IsObj(x) /\ ClassOf(x) = ty.cn THEN Return(x)
                ELSE Raise("ValidationError", "model_type")
           [] ty.k = "listof" ->
                IF IsList(x)
                THEN Combine([i \in 1..Len(x.v) |-> validate_value(ty.of, FALSE, x.v[i])])
                ELSE Raise("ValidationError", "list_type")
           [] OTHER -> validate_scalar(ty.k, x)

\* the fields of a new instance of cn from the validated values vals (in
\* declaration order), after the hooks
new_instance(cn, vals) ==
    ValueOf({
        IF Raised(h)
        THEN IF IsValueError(ExcOf(h)) THEN Raise("ValidationError", CauseOf(h)) ELSE h
        ELSE Return(ObjV(cn, h.v))
      : h \in {ValueOf({post_init(cn, at) :
                  at \in {[nm \in FieldNames(cn) |->
                             vals[CHOOSE i \in 1..Len(vals) : FieldsOf(cn)[i].name = nm]]}})}})

\* cls.model_validate(d) for a dict d whose keys are field names; also what
\* cls(**d) does.  The hook's ValueError is reported as a ValidationError.
model_validate(cn, d) ==
    ValueOf({
        IF Raised(all) THEN all ELSE new_instance(cn, all.v.v)
      : all \in {IF model_config_extra = "forbid" /\ (DOMAIN d) \ FieldNames(cn) # {}
                 THEN Raise("ValidationError", "extra_forbidden")
                 ELSE Combine([i \in 1..Len(FieldsOf(cn)) |->
                         ValueOf({
                             IF fd.name \in DOMAIN d
                             THEN validate_value(fd.ty, fd.nullable, d[fd.name])
                             ELSE IF fd.required THEN Raise("ValidationError", "missing")
                             ELSE Return(fd.dflt)
                           : fd \in {FieldsOf(cn)[i]}})])}})

(***************************************************************************)
(* Encoding                                                                *)
(***************************************************************************)
\* BaseModel.model_dump(exclude_none=True) on a value: an instance becomes the
\* dict of its fields that are not None, keyed by field name, recursively
RECURSIVE dump_value(_)
dump_value(x) ==
    IF IsObj(x)
    THEN LET at   == AttrsOf(x)
             keep == {nm \in DOMAIN at : at[nm] # NoneV}
         IN  DictV([nm \in keep |-> dump_value(at[nm])])
    ELSE IF IsList(x) THEN ListV([i \in 1..Len(x.v) |-> dump_value(x.v[i])])
    ELSE IF IsDict(x) THEN DictV([ky \in DOMAIN x.v |-> dump_value(x.v[ky])])
    ELSE x

\* RoborockBase.as_dict.  model_dump has already turned every nested instance
\* into a dict, so the isinstance(value, RoborockBase) branch never applies.
RoborockBase_as_dict(x) ==
    ValueOf({
        DictV([ky \in {k2 \in DOMAIN res : res[k2] # NoneV} |-> res[ky]])
      : res \in {ValueOf({
            [ky \in {camelize(nm) : nm \in DOMAIN dumped} |->
                ValueOf({IF w.t = "enum" THEN w.v[2] ELSE w
                         : w \in {dumped[CHOOSE nm \in DOMAIN dumped : camelize(nm) = ky]}})]
          : dumped \in {dump_value(x).v}})}})

\* x.as_dict(): RRiot and UserData override RoborockBase.as_dict
RECURSIVE as_dict(_)
as_dict(x) ==
    ValueOf({
        CASE ClassOf(x) = "RRiot" /\ IsObj(AttrsOf(x)[<<"r">>]) ->
                \* result['r'] = self.r.as_dict() when self.r is truthy (an instance is)
                DictV([ky \in (DOMAIN res) \cup {<<"r">>} |->
                          IF ky = <<"r">> THEN as_dict(AttrsOf(x)[<<"r">>]) ELSE res[ky]])
          [] ClassOf(x) = "UserData" ->
                \* the values of super().as_dict() that are not None, unchanged
                DictV([ky \in {k2 \in DOMAIN res : res[k2] # NoneV} |-> res[ky]])
          [] OTHER -> DictV(res)
      : res \in {RoborockBase_as_dict(x).v}})

(***************************************************************************)
(* Decoding                                                                *)
(***************************************************************************)
\* decamelize_obj (the second definition, which replaces the first).  A dict
\* is rebuilt with its keys transcoded unless ignored; the inputs hold no two
\* keys that transcode to the same name.
RECURSIVE decamelize_obj(_, _)
decamelize_obj(d, ign) ==
    ValueOf({
        IF IsList(d1)
        THEN ListV([i \in 1..Len(d1.v) |->
                      IF IsDict(d1.v[i]) \/ IsList(d1.v[i]) \/ IsObj(d1.v[i])
                      THEN decamelize_obj(d1.v[i], ign) ELSE d1.v[i]])
        ELSE DictV(ValueOf({
                 [ky \in DOMAIN src |->
                     IF IsDict(d1.v[src[ky]]) \/ IsList(d1.v[src[ky]]) \/ IsObj(d1.v[src[ky]])
                     THEN decamelize_obj(d1.v[src[ky]], ign) ELSE d1.v[src[ky]]]
               : src \in {ValueOf({
                     [ky \in {nk[a] : a \in DOMAIN nk} |-> CHOOSE a \in DOMAIN nk : nk[a] = ky]
                   : nk \in {[a \in DOMAIN d1.v |->
                                IF a \notin ign THEN decamelize(a) ELSE a]}})}}))
      : d1 \in {IF IsObj(d) THEN as_dict(d) ELSE d}})

\* the variant of from_dict that lets the error of model_validate through
from_dict_NoWrap(cn, x) ==
    IF IsDict(x)
    THEN model_validate(cn, decamelize_obj(x, ignore_keys(cn)).v)
    ELSE model_validate(cn, <<>>)

\* RoborockBase.from_dict as a classmethod of cn
from_dict(cn, x) ==
    IF IsDict(x)
    THEN ValueOf({
             IF Raised(o) /\ IsValueError(ExcOf(o))
             THEN Raise("RoborockException", ExcOf(o))
             ELSE o
           : o \in {ValueOf({model_validate(cn, dd.v)
                             : dd \in {decamelize_obj(x, ignore_keys(cn))}})}})
    ELSE model_validate(cn, <<>>)


(***************************************************************************)
(* The accessors of Status                                                 *)
(***************************************************************************)
\* RoborockEnum.as_dict().get(nm) on the table of en: the value registered
\* under name nm, or None
RoborockEnum_as_dict_get(en, nm) ==
    IF \E i \in 1..Len(EnumMembers(en)) : EnumMembers(en)[i].name = nm
    THEN EnumMembers(en)[CHOOSE i \in 1..Len(EnumMembers(en)) : EnumMembers(en)[i].name = nm].val
    ELSE NoneV

\* the variant of get_fan_speed_code without the test for None
get_fan_speed_code_Unguarded(at, fan_speed) ==
    Return(IF at[fan_power] = NoneV THEN NoneV
           ELSE RoborockEnum_as_dict_get(at[fan_power].v[1], fan_speed))

\* Status.get_fan_speed_code on an instance with fields at
get_fan_speed_code(at, fan_speed) ==
    IF at[fan_power] = NoneV
    THEN Raise("RoborockException", "Attempted to get fan speed before status has been updated.")
    ELSE Return(RoborockEnum_as_dict_get(at[fan_power].v[1], fan_speed))

\* Status.get_mop_intensity_code
get_mop_intensity_code(at, mop_intensity) ==
    IF at[water_box_mode] = NoneV
    THEN Raise("RoborockException", "Attempted to get mop_intensity before status has been updated.")
    ELSE Return(RoborockEnum_as_dict_get(at[water_box_mode].v[1], mop_intensity))

\* Status.get_mop_mode_code
get_mop_mode_code(at, mop_mode_arg) ==
    IF at[mop_mode] = NoneV
    THEN Raise("RoborockException", "Attempted to get mop_mode before status has been updated.")
    ELSE Return(RoborockEnum_as_dict_get(at[mop_mode].v[1], mop_mode_arg))
(***************************************************************************)
(* build_device_features.  The two feature words are strings; a Python int *)
(* of any size is the sequence of its binary digits, lowest first, with no *)
(* leading zero (0 is the empty sequence).                                 *)
(***************************************************************************)
DigitOf ==
    ("0" :> 0) @@ ("1" :> 1) @@ ("2" :> 2) @@ ("3" :> 3) @@ ("4" :> 4) @@
    ("5" :> 5) @@ ("6" :> 6) @@ ("7" :> 7) @@ ("8" :> 8) @@ ("9" :> 9)

\* a non-empty string of decimal digits
IsDigits(w) == Len(w) > 0 /\ \A i \in 1..Len(w) : w[i] \in DOMAIN DigitOf

\* the binary digits without the zeros at the high end
RECURSIVE StripBits(_)
StripBits(bs) ==
    IF Len(bs) > 0 /\ bs[Len(bs)] = 0 THEN StripBits(SubSeq(bs, 1, Len(bs) - 1)) ELSE bs

\* a decimal digit sequence divided by two
HalveDigits(ds) ==
    [i \in 1..Len(ds) |-> ((IF i > 1 THEN ds[i-1] % 2 ELSE 0) * 10 + ds[i]) \div 2]

\* the int whose decimal digits are ds
RECURSIVE BitsOfDigits(_)
BitsOfDigits(ds) ==
    IF \A i \in 1..Len(ds) : ds[i] = 0 THEN <<>>
    ELSE <<ds[Len(ds)] % 2>> \o BitsOfDigits(HalveDigits(ds))

\* an integer literal of the source that fits 31 bits
RECURSIVE IntBits(_)
IntBits(n) == IF n = 0 THEN <<>> ELSE <<n % 2>> \o IntBits(n \div 2)

\* int("0x" + w, 16) for a string of decimal digits: four bits a character
RECURSIVE HexBits(_)
HexBits(w) ==
    IF Len(w) = 0 THEN <<>>
    ELSE LET dg == DigitOf[w[Len(w)]]
         IN  <<dg % 2, (dg \div 2) % 2, (dg \div 4) % 2, dg \div 8>>
                 \o HexBits(SubSeq(w, 1, Len(w) - 1))

\* the variant of int("0x" + w, 16) that reads the digits in base 10
int_hex_Base10(w) == BitsOfDigits([i \in 1..Len(w) |-> DigitOf[w[i]]])

\* int("0x" + w, 16) for a string of decimal digits
int_hex(w) == StripBits(HexBits(w))

\* the variant of int(w) that reads the digits in base 16
int_dec_Base16(w) == StripBits(HexBits(w))

\* int(w) for a string of decimal digits
int_dec(w) == BitsOfDigits([i \in 1..Len(w) |-> DigitOf[w[i]]])

\* w[-8:]
last8(w) == IF Len(w) > 8 THEN SubSeq(w, Len(w) - 7, Len(w)) ELSE w

\* a & b
BitAnd(a, b) ==
    LET len == IF Len(a) < Len(b) THEN Len(a) ELSE Len(b)
    IN  StripBits([i \in 1..len |-> a[i] * b[i]])

\* a >> sh
ShiftRight(a, sh) == IF Len(a) <= sh THEN <<>> ELSE SubSeq(a, sh + 1, Len(a))

\* a + 1
RECURSIVE Increment(_)
Increment(a) ==
    IF Len(a) = 0 THEN <<1>>
    ELSE IF a[1] = 0 THEN <<1>> \o Tail(a)
    ELSE <<0>> \o Increment(Tail(a))

\* float(a), as the int it equals: the 53 leading binary digits of a, rounded
\* to nearest, ties to even
Round53(a) ==
    IF Len(a) <= 53 THEN a
    ELSE LET cut    == Len(a) - 53
             kept   == SubSeq(a, cut + 1, Len(a))
             guard  == a[cut]
             sticky == \E i \in 1..(cut - 1) : a[i] = 1
             up     == guard = 1 /\ (sticky \/ kept[1] = 1)
         IN  [i \in 1..cut |-> 0] \o (IF up THEN Increment(kept) ELSE kept)

\* int(a / (2**32)): true division makes a float of a first; the quotient by a
\* power of two is exact and int() drops its fraction
div_2_32(a) == ShiftRight(Round53(a), 32)

\* bool(a)
Bool(a) == Len(a) > 0

\* the keyword arguments of the DeviceFeatures(...) call, lines 336-396
build_flags(feature_set_int, new_feature_set_int, new_feature_set_divided, converted_new_feature_set, new_feature_set_mod_8) ==
    [map_carpet_add_supported |-> Bool(BitAnd(IntBits(1073741824), new_feature_set_int)),
     show_clean_finish_reason_supported |-> Bool(BitAnd(IntBits(1), new_feature_set_int)),
     resegment_supported |-> Bool(BitAnd(IntBits(4), new_feature_set_int)),
     video_monitor_supported |-> Bool(BitAnd(IntBits(8), new_feature_set_int)),
     any_state_transit_goto_supported |-> Bool(BitAnd(IntBits(16), new_feature_set_int)),
     fw_filter_obstacle_supported |-> Bool(BitAnd(IntBits(32), new_feature_set_int)),
     video_setting_supported |-> Bool(BitAnd(IntBits(64), new_feature_set_int)),
     ignore_unknown_map_object_supported |-> Bool(BitAnd(IntBits(128), new_feature_set_int)),
     set_child_supported |-> Bool(BitAnd(IntBits(256), new_feature_set_int)),
     carpet_supported |-> Bool(BitAnd(IntBits(512), new_feature_set_int)),
     mop_path_supported |-> Bool(BitAnd(IntBits(2048), new_feature_set_int)),
     \* feature_set_int and 4096 & new_feature_set_int
     multi_map_segment_timer_supported |->
         Bool(feature_set_int) /\ Bool(BitAnd(IntBits(4096), new_feature_set_int)),
     \* new_feature_set_int and 2147483648 & new_feature_set_int
     custom_water_box_distance_supported |->
         /\ Bool(new_feature_set_int)
         /\ Bool(BitAnd(BitsOfDigits(<<2,1,4,7,4,8,3,6,4,8>>), new_feature_set_int)),
     wash_then_charge_cmd_supported |->
         Bool(BitAnd(ShiftRight(new_feature_set_divided, 5), IntBits(1))),
     room_name_supported |-> Bool(BitAnd(IntBits(16384), new_feature_set_int)),
     current_map_restore_enabled |-> Bool(BitAnd(IntBits(8192), new_feature_set_int)),
     photo_upload_supported |-> Bool(BitAnd(IntBits(65536), new_feature_set_int)),
     shake_mop_set_supported |-> Bool(BitAnd(IntBits(262144), new_feature_set_int)),
     map_beautify_internal_debug_supported |-> Bool(BitAnd(IntBits(2097152), new_feature_set_int)),
     new_data_for_clean_history |-> Bool(BitAnd(IntBits(4194304), new_feature_set_int)),
     new_data_for_clean_history_detail |-> Bool(BitAnd(IntBits(8388608), new_feature_set_int)),
     flow_led_setting_supported |-> Bool(BitAnd(IntBits(16777216), new_feature_set_int)),
     dust_collection_setting_supported |-> Bool(BitAnd(IntBits(33554432), new_feature_set_int)),
     rpc_retry_supported |-> Bool(BitAnd(IntBits(67108864), new_feature_set_int)),
     avoid_collision_supported |-> Bool(BitAnd(IntBits(134217728), new_feature_set_int)),
     support_set_switch_map_mode |-> Bool(BitAnd(IntBits(268435456), new_feature_set_int)),
     support_smart_scene |-> Bool(BitAnd(new_feature_set_divided, IntBits(2))),
     support_floor_edit |-> Bool(BitAnd(new_feature_set_divided, IntBits(8))),
     support_furniture |-> Bool(BitAnd(ShiftRight(new_feature_set_divided, 4), IntBits(1))),
     support_room_tag |-> Bool(BitAnd(ShiftRight(new_feature_set_divided, 6), IntBits(1))),
     support_quick_map_builder |-> Bool(BitAnd(ShiftRight(new_feature_set_divided, 7), IntBits(1))),
     support_smart_global_clean_with_custom_mode |->
         Bool(BitAnd(ShiftRight(new_feature_set_divided, 8), IntBits(1))),
     record_allowed |-> Bool(BitAnd(IntBits(1024), new_feature_set_int)),
     careful_slow_map_supported |-> Bool(BitAnd(ShiftRight(new_feature_set_divided, 9), IntBits(1))),
     egg_mode_supported |-> Bool(BitAnd(ShiftRight(new_feature_set_divided, 10), IntBits(1))),
     unsave_map_reason_supported |-> Bool(BitAnd(ShiftRight(new_feature_set_divided, 14), IntBits(1))),
     carpet_show_on_map |-> Bool(BitAnd(ShiftRight(new_feature_set_divided, 12), IntBits(1))),
     supported_valley_electricity |-> Bool(BitAnd(ShiftRight(new_feature_set_divided, 13), IntBits(1))),
     drying_supported |-> Bool(BitAnd(ShiftRight(new_feature_set_divided, 15), IntBits(1))),
     download_test_voice_supported |-> Bool(BitAnd(ShiftRight(new_feature_set_divided, 16), IntBits(1))),
     support_backup_map |-> Bool(BitAnd(ShiftRight(new_feature_set_divided, 17), IntBits(1))),
     support_custom_mode_in_cleaning |-> Bool(BitAnd(ShiftRight(new_feature_set_divided, 18), IntBits(1))),
     support_remote_control_in_call |-> Bool(BitAnd(ShiftRight(new_feature_set_divided, 19), IntBits(1))),
     support_set_volume_in_call |->
         new_feature_set_mod_8 /\ Bool(BitAnd(IntBits(1), converted_new_feature_set)),
     support_clean_estimate |->
         new_feature_set_mod_8 /\ Bool(BitAnd(IntBits(2), converted_new_feature_set)),
     support_custom_dnd |->
         new_feature_set_mod_8 /\ Bool(BitAnd(IntBits(4), converted_new_feature_set)),
     carpet_deep_clean_supported |-> Bool(BitAnd(IntBits(8), converted_new_feature_set)),
     stuck_zone_supported |->
         new_feature_set_mod_8 /\ Bool(BitAnd(IntBits(16), converted_new_feature_set)),
     custom_door_sill_supported |->
         new_feature_set_mod_8 /\ Bool(BitAnd(IntBits(32), converted_new_feature_set)),
     clean_route_fast_mode_supported |-> Bool(BitAnd(IntBits(256), converted_new_feature_set)),
     cliff_zone_supported |->
         new_feature_set_mod_8 /\ Bool(BitAnd(IntBits(512), converted_new_feature_set)),
     smart_door_sill_supported |->
         new_feature_set_mod_8 /\ Bool(BitAnd(IntBits(1024), converted_new_feature_set)),
     support_floor_direction |->
         new_feature_set_mod_8 /\ Bool(BitAnd(IntBits(2048), converted_new_feature_set)),
     wifi_manage_supported |-> Bool(BitAnd(IntBits(128), converted_new_feature_set)),
     back_charge_auto_wash_supported |-> Bool(BitAnd(IntBits(4096), converted_new_feature_set)),
     support_incremental_map |-> Bool(BitAnd(IntBits(8192), converted_new_feature_set)),
     offline_map_supported |-> Bool(BitAnd(IntBits(16384), converted_new_feature_set))]

\* build_device_features(feature_set, new_feature_set): int() raises a
\* ValueError on a string that is not a number
build_device_features(fset, nfset) ==
    IF ~IsDigits(nfset) \/ ~IsDigits(fset)
    THEN Raise("ValueError", "invalid literal for int() with base 10")
    ELSE Return(build_flags(int_dec(fset), int_dec(nfset), div_2_32(int_dec(nfset)),
                            int_hex(last8(nfset)), Len(nfset) % 8 = 0))

(***************************************************************************)
(* Model dispatch                                                          *)
(***************************************************************************)
\* the variant of the registry that binds ROBOROCK_S7 to Q7MaxStatus
ModelStatus_S7AsQ7 ==
    [ROBOROCK_S4_MAX |-> "S4MaxStatus", ROBOROCK_S5_MAX |-> "S5MaxStatus",
     ROBOROCK_Q7_MAX |-> "Q7MaxStatus", ROBOROCK_S6 |-> "S6PureStatus",
     ROBOROCK_S6_MAXV |-> "S6MaxVStatus", ROBOROCK_S6_PURE |-> "S6PureStatus",
     ROBOROCK_S7_MAXV |-> "S7MaxVStatus", ROBOROCK_S7 |-> "Q7MaxStatus",
     ROBOROCK_S8 |-> "S8Status", ROBOROCK_S8_PRO_ULTRA |-> "S8ProUltraStatus",
     ROBOROCK_G10S_PRO |-> "S7MaxVStatus", ROBOROCK_P10 |-> "P10Status",
     ROBOROCK_QREVO_S |-> "P10Status", ROBOROCK_QREVO_MAXV |-> "P10Status",
     ROBOROCK_QREVO_PRO |-> "P10Status", ROBOROCK_S8_MAXV_ULTRA |-> "S8MaxvUltraStatus"]

\* ModelStatus: the Status class of each model identifier (the identifiers are
\* the constants of roborock.const, named here by the constant)
ModelStatus ==
    [ROBOROCK_S4_MAX |-> "S4MaxStatus", ROBOROCK_S5_MAX |-> "S5MaxStatus",
     ROBOROCK_Q7_MAX |-> "Q7MaxStatus", ROBOROCK_S6 |-> "S6PureStatus",
     ROBOROCK_S6_MAXV |-> "S6MaxVStatus", ROBOROCK_S6_PURE |-> "S6PureStatus",
     ROBOROCK_S7_MAXV |-> "S7MaxVStatus", ROBOROCK_S7 |-> "S7Status",
     ROBOROCK_S8 |-> "S8Status", ROBOROCK_S8_PRO_ULTRA |-> "S8ProUltraStatus",
     ROBOROCK_G10S_PRO |-> "S7MaxVStatus", ROBOROCK_P10 |-> "P10Status",
     ROBOROCK_QREVO_S |-> "P10Status", ROBOROCK_QREVO_MAXV |-> "P10Status",
     ROBOROCK_QREVO_PRO |-> "P10Status", ROBOROCK_S8_MAXV_ULTRA |-> "S8MaxvUltraStatus"]

(***************************************************************************)
(* Inputs.  A payload is a wire mapping as the transport layer parses it:  *)
(* the base payload of the class (its required fields, valid, in wire      *)
(* form) overridden or extended by up to MaxPicks of the class's entries   *)
(* of interest, or those entries alone.                                    *)
(***************************************************************************)
\* how many entries of interest one payload combines
MaxPicks == 2

\* the classes whose from_dict / as_dict the specification exercises
Classes ==
    {"Status", "S7Status", "Q7MaxStatus", "CleanSummary", "CleanRecord", "Consumable",
     "DnDTimer", "ValleyElectricityTimer", "NetworkInfo", "RRiot", "UserData",
     "HomeData", "MultiMapsList", "DustCollectionMode", "DeviceFeatures", "RoborockProduct"}

\* the required fields of class cn, valid and in wire form (no other class
\* of Classes declares a required field)
BasePayload(cn) ==
    CASE cn = "NetworkInfo" ->
            ((<<"i","p">> :> StrV("1.2.3.4")))
      [] cn = "RRiot" ->
            ((<<"u">> :> StrV("u"))
             @@ (<<"s">> :> StrV("s"))
             @@ (<<"h">> :> StrV("h"))
             @@ (<<"k">> :> StrV("k"))
             @@ (<<"r">> :> DictV((<<"r">> :> StrV("US")) @@ (<<"a">> :> StrV("api")))))
      [] cn = "HomeData" ->
            ((<<"i","d">> :> IntV(1))
             @@ (<<"n","a","m","e">> :> StrV("home")))
      [] cn = "DeviceFeatures" ->
            [ky \in {camelize(nm) : nm \in FieldNames("DeviceFeatures")} |-> BoolV(FALSE)]
      [] cn = "RoborockProduct" ->
            ((<<"i","d">> :> IntV(1))
             @@ (<<"n","a","m","e">> :> StrV("S7"))
             @@ (<<"m","o","d","e","l">> :> StrV("roborock.vacuum.a15"))
             @@ (<<"p","a","c","k","a","g","e","n","a","m","e">> :> StrV("pkg"))
             @@ (<<"s","s","i","d">> :> StrV("rr"))
             @@ (<<"p","i","c","u","r","l">> :> StrV("p"))
             @@ (<<"c","a","r","d","p","i","c","u","r","l">> :> StrV("c"))
             @@ (<<"m","e","d","i","u","m","C","a","r","d","p","i","c","u","r","l">> :> StrV("m"))
             @@ (<<"r","e","s","e","t","w","i","f","i","p","i","c","u","r","l">> :> StrV("r"))
             @@ (<<"r","e","s","e","t","w","i","f","i","t","e","x","t">> :> DictV((<<"e","n">> :> StrV("txt"))))
             @@ (<<"t","u","y","a","i","d">> :> StrV("t"))
             @@ (<<"s","t","a","t","u","s">> :> IntV(1))
             @@ (<<"r","r","i","o","t","i","d">> :> StrV("rr"))
             @@ (<<"c","a","r","d","s","p","e","c">> :> StrV("spec"))
             @@ (<<"p","i","c","t","u","r","e","s">> :> ListV(<<>>))
             @@ (<<"n","c","M","o","d","e">> :> StrV("nc"))
             @@ (<<"s","c","o","p","e">> :> NoneV)
             @@ (<<"p","r","o","d","u","c","t","T","a","g","s">> :> ListV(<<>>))
             @@ (<<"a","g","r","e","e","m","e","n","t","s">> :> ListV(<<>>))
             @@ (<<"p","l","u","g","i","n","P","i","c","U","r","l">> :> NoneV))
      [] OTHER -> <<>>

\* entries <<wire key, value>> of interest for class cn: valid and invalid
\* values, names of derived fields, a key the class does not declare
Entries(cn) ==
    CASE cn \in {"Status", "S7Status", "Q7MaxStatus"} ->
            {<<<<"f","a","n","P","o","w","e","r">>, IntV(102)>>,
             <<<<"f","a","n","P","o","w","e","r">>, IntV(108)>>,
             <<<<"f","a","n","P","o","w","e","r">>, IntV(9999)>>,
             <<<<"s","t","a","t","e">>, IntV(8)>>,
             <<<<"s","t","a","t","e">>, IntV(77)>>,
             <<<<"e","r","r","o","r","C","o","d","e">>, IntV(1)>>,
             <<<<"w","a","t","e","r","B","o","x","M","o","d","e">>, IntV(203)>>,
             <<<<"m","o","p","M","o","d","e">>, IntV(300)>>,
             <<<<"c","l","e","a","n","A","r","e","a">>, IntV(1250000)>>,
             <<<<"b","a","t","t","e","r","y">>, IntV(100)>>,
             <<<<"b","a","t","t","e","r","y">>, StrV("x")>>,
             <<<<"s","q","u","a","r","e","M","e","t","e","r","C","l","e","a","n","A","r","e","a">>, FloatV(99)>>,
             <<<<"s","t","a","t","e","N","a","m","e">>, StrV("x")>>,
             <<<<"e","r","r","o","r","C","o","d","e","N","a","m","e">>, StrV("x")>>,
             <<<<"f","a","n","P","o","w","e","r","N","a","m","e">>, StrV("x")>>,
             <<<<"f","a","n","P","o","w","e","r","O","p","t","i","o","n","s">>, ListV(<<StrV("x")>>)>>,
             <<<<"w","a","t","e","r","B","o","x","M","o","d","e","N","a","m","e">>, StrV("x")>>,
             <<<<"m","o","p","M","o","d","e","N","a","m","e">>, StrV("x")>>,
             <<<<"u","n","k","n","o","w","n","K","e","y">>, IntV(1)>>}
      [] cn = "CleanSummary" ->
            {<<<<"c","l","e","a","n","A","r","e","a">>, IntV(2000000)>>,
             <<<<"c","l","e","a","n","A","r","e","a">>, StrV("x")>>,
             <<<<"s","q","u","a","r","e","M","e","t","e","r","C","l","e","a","n","A","r","e","a">>, FloatV(99)>>,
             <<<<"c","l","e","a","n","C","o","u","n","t">>, IntV(3)>>,
             <<<<"u","n","k","n","o","w","n","K","e","y">>, IntV(1)>>}
      [] cn = "CleanRecord" ->
            {<<<<"b","e","g","i","n">>, IntV(0)>>,
             <<<<"b","e","g","i","n">>, IntV(1700000000)>>,
             <<<<"b","e","g","i","n">>, BigV(1000, 0)>>,
             <<<<"b","e","g","i","n">>, BigV(100000000, 0)>>,
             <<<<"e","n","d">>, IntV(0)>>,
             <<<<"e","n","d">>, IntV(1700000000)>>,
             <<<<"e","n","d">>, BigV(100000000, 0)>>,
             <<<<"e","n","d">>, StrV("x")>>,
             <<<<"b","e","g","i","n","D","a","t","e","t","i","m","e">>, DatetimeV(0, 5)>>,
             <<<<"e","n","d","D","a","t","e","t","i","m","e">>, DatetimeV(0, 5)>>,
             <<<<"a","r","e","a">>, IntV(1250000)>>,
             <<<<"s","q","u","a","r","e","M","e","t","e","r","A","r","e","a">>, FloatV(99)>>,
             <<<<"s","t","a","r","t","T","y","p","e">>, IntV(2)>>,
             <<<<"s","t","a","r","t","T","y","p","e">>, IntV(99)>>,
             <<<<"m","a","p","F","l","a","g">>, IntV(1)>>,
             <<<<"u","n","k","n","o","w","n","K","e","y">>, IntV(1)>>}
      [] cn = "Consumable" ->
            {<<<<"m","a","i","n","B","r","u","s","h","W","o","r","k","T","i","m","e">>, IntV(0)>>,
             <<<<"m","a","i","n","B","r","u","s","h","W","o","r","k","T","i","m","e">>, IntV(1080100)>>,
             <<<<"m","a","i","n","B","r","u","s","h","T","i","m","e","L","e","f","t">>, IntV(7)>>,
             <<<<"s","i","d","e","B","r","u","s","h","W","o","r","k","T","i","m","e">>, IntV(1000)>>,
             <<<<"s","i","d","e","B","r","u","s","h","T","i","m","e","L","e","f","t">>, IntV(7)>>,
             <<<<"f","i","l","t","e","r","W","o","r","k","T","i","m","e">>, IntV(1000)>>,
             <<<<"s","e","n","s","o","r","D","i","r","t","y","T","i","m","e">>, IntV(1000)>>,
             <<<<"s","e","n","s","o","r","T","i","m","e","L","e","f","t">>, IntV(7)>>,
             <<<<"f","i","l","t","e","r","E","l","e","m","e","n","t","W","o","r","k","T","i","m","e">>, IntV(5)>>,
             <<<<"u","n","k","n","o","w","n","K","e","y">>, IntV(1)>>}
      [] cn = "DnDTimer" ->
            {<<<<"s","t","a","r","t","H","o","u","r">>, IntV(22)>>,
             <<<<"s","t","a","r","t","H","o","u","r">>, IntV(25)>>,
             <<<<"s","t","a","r","t","M","i","n","u","t","e">>, IntV(30)>>,
             <<<<"e","n","d","H","o","u","r">>, IntV(8)>>,
             <<<<"e","n","d","M","i","n","u","t","e">>, IntV(0)>>,
             <<<<"e","n","d","M","i","n","u","t","e">>, IntV(75)>>,
             <<<<"s","t","a","r","t","T","i","m","e">>, TimeV(1, 1)>>,
             <<<<"e","n","d","T","i","m","e">>, StrV("x")>>,
             <<<<"e","n","a","b","l","e","d">>, IntV(1)>>,
             <<<<"u","n","k","n","o","w","n","K","e","y">>, IntV(1)>>}
      [] cn = "ValleyElectricityTimer" ->
            {<<<<"s","t","a","r","t","H","o","u","r">>, IntV(22)>>,
             <<<<"s","t","a","r","t","M","i","n","u","t","e">>, IntV(30)>>,
             <<<<"s","t","a","r","t","T","i","m","e">>, TimeV(1, 1)>>,
             <<<<"u","n","k","n","o","w","n","K","e","y">>, IntV(1)>>}
      [] cn = "NetworkInfo" ->
            {<<<<"i","p">>, IntV(5)>>,
             <<<<"s","s","i","d">>, StrV("net")>>,
             <<<<"r","s","s","i">>, IntV(-50)>>,
             <<<<"r","s","s","i">>, StrV("x")>>,
             <<<<"u","n","k","n","o","w","n","K","e","y">>, IntV(1)>>}
      [] cn = "RRiot" ->
            {<<<<"r">>, DictV((<<"r">> :> StrV("US")) @@ (<<"l">> :> StrV("l")))>>,
             <<<<"r">>, IntV(5)>>,
             <<<<"u">>, IntV(5)>>,
             <<<<"u","n","k","n","o","w","n","K","e","y">>, IntV(1)>>}
      [] cn = "UserData" ->
            {<<<<"u","i","d">>, IntV(1)>>,
             <<<<"t","o","k","e","n">>, StrV("tok")>>,
             <<<<"t","u","y","a","D","e","v","i","c","e","S","t","a","t","e">>, IntV(1)>>,
             <<<<"r","r","i","o","t">>, DictV((<<"u">> :> StrV("u")) @@ (<<"s">> :> StrV("s")) @@ (<<"h">> :> StrV("h")) @@ (<<"k">> :> StrV("k")) @@ (<<"r">> :> DictV((<<"r">> :> StrV("US")) @@ (<<"a">> :> StrV("api")))))>>,
             <<<<"r","r","i","o","t">>, DictV((<<"u">> :> StrV("u")))>>,
             <<<<"u","n","k","n","o","w","n","K","e","y">>, IntV(1)>>}
      [] cn = "HomeData" ->
            {<<<<"r","o","o","m","s">>, ListV(<<DictV((<<"i","d">> :> IntV(1)) @@ (<<"n","a","m","e">> :> StrV("kitchen"))), DictV((<<"i","d">> :> IntV(2)) @@ (<<"n","a","m","e">> :> StrV("hall")))>>)>>,
             <<<<"r","o","o","m","s">>, ListV(<<DictV((<<"i","d">> :> IntV(1)))>>)>>,
             <<<<"r","o","o","m","s">>, NoneV>>,
             <<<<"g","e","o","N","a","m","e">>, StrV("x")>>,
             <<<<"p","r","o","d","u","c","t","s">>, ListV(<<DictV((<<"i","d">> :> StrV("p")) @@ (<<"n","a","m","e">> :> StrV("S7")) @@ (<<"m","o","d","e","l">> :> StrV("m")) @@ (<<"c","a","t","e","g","o","r","y">> :> StrV("robot.vacuum.cleaner")) @@ (<<"s","c","h","e","m","a">> :> ListV(<<DictV((<<"i","d">> :> IntV(101)) @@ (<<"c","o","d","e">> :> StrV("rpc_request")) @@ (<<"p","r","o","d","u","c","t","P","r","o","p","e","r","t","y">> :> NoneV))>>)))>>)>>,
             <<<<"p","r","o","d","u","c","t","s">>, ListV(<<DictV((<<"i","d">> :> StrV("p")) @@ (<<"n","a","m","e">> :> StrV("S7")) @@ (<<"m","o","d","e","l">> :> StrV("m")) @@ (<<"c","a","t","e","g","o","r","y">> :> StrV("toaster")))>>)>>,
             <<<<"u","n","k","n","o","w","n","K","e","y">>, IntV(1)>>}
      [] cn = "MultiMapsList" ->
            {<<<<"m","a","x","M","u","l","t","i","M","a","p">>, IntV(4)>>,
             <<<<"m","u","l","t","i","M","a","p","C","o","u","n","t">>, IntV(1)>>,
             <<<<"m","a","p","I","n","f","o">>, ListV(<<DictV((<<"m","a","p","F","l","a","g">> :> IntV(0)) @@ (<<"n","a","m","e">> :> StrV("floor")) @@ (<<"a","d","d","T","i","m","e">> :> IntV(1)) @@ (<<"b","a","k","M","a","p","s">> :> ListV(<<DictV((<<"m","a","p","f","l","a","g">> :> IntV(1)) @@ (<<"a","d","d","T","i","m","e">> :> IntV(2)))>>)))>>)>>,
             <<<<"m","a","p","I","n","f","o">>, ListV(<<DictV((<<"n","a","m","e">> :> StrV("floor")))>>)>>,
             <<<<"u","n","k","n","o","w","n","K","e","y">>, IntV(1)>>}
      [] cn = "DustCollectionMode" ->
            {<<<<"m","o","d","e">>, IntV(0)>>,
             <<<<"m","o","d","e">>, IntV(2)>>,
             <<<<"m","o","d","e">>, IntV(3)>>,
             <<<<"u","n","k","n","o","w","n","K","e","y">>, IntV(1)>>}
      [] cn = "DeviceFeatures" ->
            {<<<<"m","a","p","C","a","r","p","e","t","A","d","d","S","u","p","p","o","r","t","e","d">>, BoolV(TRUE)>>,
             <<<<"u","n","k","n","o","w","n","K","e","y">>, IntV(1)>>}
      [] cn = "RoborockProduct" ->
            {<<<<"s","t","a","t","u","s">>, IntV(2)>>,
             <<<<"s","c","o","p","e">>, StrV("x")>>,
             <<<<"u","n","k","n","o","w","n","K","e","y">>, IntV(1)>>}

\* raw values that are not mappings
NonMappings == {NoneV, ListV(<<IntV(1)>>), StrV("x"), IntV(7)}

\* base overridden by the picked entries
Override(basefn, picks) ==
    LET pk == {p[1] : p \in picks}
    IN  [ky \in (DOMAIN basefn) \cup pk |->
            IF ky \in pk THEN (CHOOSE p \in picks : p[1] = ky)[2] ELSE basefn[ky]]

\* sets of at most n entries of class cn with pairwise distinct keys
RECURSIVE PickSets(_, _)
PickSets(cn, n) ==
    IF n = 0 THEN {{}}
    ELSE LET fewer == PickSets(cn, n - 1)
             more(ps) == {ps \cup {p} : p \in {q \in Entries(cn) : \A r \in ps : r[1] # q[1]}}
         IN  fewer \cup UNION {more(ps) : ps \in fewer}

Payloads(cn) ==
    {DictV(Override(BasePayload(cn), ps)) : ps \in PickSets(cn, MaxPicks)}
        \cup {DictV(Override(<<>>, ps)) : ps \in PickSets(cn, MaxPicks)}

(***************************************************************************)
(* State.  One run follows one raw value through the codec: decode,        *)
(* encode the decoded object, decode the encoding.  A second kind of run   *)
(* resolves a model identifier to its Status class first; a third builds   *)
(* the device features of two feature words.  Further runs assign to a     *)
(* decoded object, call the accessors of a decoded Status, or transcode a  *)
(* name.                                                                   *)
(***************************************************************************)
VARIABLES
    cls,                \* the class whose from_dict is called ("" before it is known)
    data,               \* the raw value handed to from_dict
    pc,                 \* the position of the run
    result,             \* the outcome of from_dict(data)
    encoded,            \* result.as_dict()
    redecoded,          \* the outcome of from_dict(encoded)
    model,              \* the model identifier to resolve ("" when none)
    feature_set,        \* the legacy feature word
    new_feature_set,    \* the extended feature word
    device_features,    \* the outcome of build_device_features
    call,               \* the accessor called on the decoded Status, with its argument
    answer,             \* the outcome of that call
    trail,              \* a name, followed by its successive transcodings
    ops                 \* the transcoders applied to it, in order

vars == <<cls, data, pc, result, encoded, redecoded, model,
          feature_set, new_feature_set, device_features, call, answer, trail, ops>>

Init ==
    /\ cls \in Classes
    /\ data \in NonMappings \cup Payloads(cls)
    /\ pc = "init"
    /\ result = NoneV
    /\ encoded = NoneV
    /\ redecoded = NoneV
    /\ model = ""
    /\ feature_set = <<>>
    /\ new_feature_set = <<>>
    /\ device_features = NoneV
    /\ call = NoneV
    /\ answer = NoneV
    /\ trail = <<>>
    /\ ops = <<>>

\* result = cls.from_dict(data)
FromDict ==
    /\ pc = "init"
    /\ result' = from_dict(cls, data)
    /\ pc' = "decoded"
    /\ UNCHANGED <<cls, data, encoded, redecoded, model,
                   feature_set, new_feature_set, device_features,
                   call, answer, trail, ops>>

\* encoded = result.as_dict()
AsDict ==
    /\ pc = "decoded"
    /\ Returned(result)
    /\ encoded' = as_dict(result.v)
    /\ pc' = "encoded"
    /\ UNCHANGED <<cls, data, result, redecoded, model,
                   feature_set, new_feature_set, device_features,
                   call, answer, trail, ops>>

\* redecoded = cls.from_dict(encoded)
FromDictEncoded ==
    /\ pc = "encoded"
    /\ redecoded' = from_dict(cls, encoded)
    /\ pc' = "done"
    /\ UNCHANGED <<cls, data, result, encoded, model,
                   feature_set, new_feature_set, device_features,
                   call, answer, trail, ops>>

Next == FromDict \/ AsDict \/ FromDictEncoded

Spec == Init /\ [][Next]_vars

(***************************************************************************)
(* Runs that resolve a model identifier                                    *)
(***************************************************************************)
\* the fan-speed, mop-intensity and mop-mode codes offered to the resolved class
DispatchCodes == {101, 104, 105, 106, 108, 110, 203, 207, 208, 302, 304, 306, 9999}

DispatchPayloads ==
    {DictV(ky :> IntV(cd)) :
        ky \in {camelize(fan_power), camelize(water_box_mode), camelize(mop_mode)},
        cd \in DispatchCodes}
    \cup {DictV(Override(<<>>, ps)) :
            ps \in {{}, {<<camelize(state), IntV(8)>>, <<camelize(clean_area), IntV(1250000)>>},
                    {<<camelize(state_name), StrV("x")>>, <<camelize(battery), IntV(100)>>}}}

DispatchInit ==
    /\ model \in DOMAIN ModelStatus
    /\ data \in DispatchPayloads
    /\ cls = ""
    /\ pc = "unresolved"
    /\ result = NoneV
    /\ encoded = NoneV
    /\ redecoded = NoneV
    /\ feature_set = <<>>
    /\ new_feature_set = <<>>
    /\ device_features = NoneV
    /\ call = NoneV
    /\ answer = NoneV
    /\ trail = <<>>
    /\ ops = <<>>

\* cls = ModelStatus[model]
Resolve ==
    /\ pc = "unresolved"
    /\ cls' = ModelStatus[model]
    /\ pc' = "init"
    /\ UNCHANGED <<data, result, encoded, redecoded, model,
                   feature_set, new_feature_set, device_features,
                   call, answer, trail, ops>>

DispatchNext == Resolve \/ FromDict

DispatchSpec == DispatchInit /\ [][DispatchNext]_vars

(***************************************************************************)
(* Runs that build device features                                         *)
(***************************************************************************)
\* the highest bit of the extended word set alone
MaxBit == 52

\* decimal digits doubled
DoubleDigits(ds) ==
    LET carry(i) == IF i < Len(ds) /\ ds[i+1] >= 5 THEN 1 ELSE 0
        body == [i \in 1..Len(ds) |-> ((2 * ds[i]) % 10) + carry(i)]
    IN  IF ds[1] >= 5 THEN <<1>> \o body ELSE body

\* the decimal digits of 2^n
RECURSIVE Pow2Digits(_)
Pow2Digits(n) == IF n = 0 THEN <<1>> ELSE DoubleDigits(Pow2Digits(n - 1))

\* the string of a digit sequence
DigitChars == <<"0", "1", "2", "3", "4", "5", "6", "7", "8", "9">>

StrOfDigits(ds) == [i \in 1..Len(ds) |-> DigitChars[ds[i] + 1]]

FeatureWords == {<<"0">>, <<"1">>, <<"1","2","7">>}

NewFeatureWords ==
    {StrOfDigits(Pow2Digits(n)) : n \in 0..MaxBit}
    \cup {<<"0">>, <<"1","3">>, <<"0","0","1","3">>,
          \* 4294967295 and 9007199254740991
          <<"4","2","9","4","9","6","7","2","9","5">>,
          <<"9","0","0","7","1","9","9","2","5","4","7","4","0","9","9","1">>,
          \* 2^53 + 2^33 - 1 and 2^37 + 2^33 + 2^32 + 5
          <<"9","0","0","7","2","0","7","8","4","4","6","7","5","5","8","3">>,
          <<"1","5","0","3","2","3","8","5","5","3","6","5">>,
          \* eight and sixteen characters
          <<"0","0","0","0","3","F","6","3">>,
          <<"0","0","0","0","7","9","3","7">>,
          <<"1","2","3","4","5","6","7","8">>,
          <<"0","0","0","0","0","0","0","0","0","0","0","0","2","0","0","0">>,
          <<"9","9","9","9","9","9","9","9","9","9","9","9","9","9","9","9">>,
          <<"9","0","0","7","1","9","9","2","5","9","0","3","6","7","7","8">>}

FeaturesInit ==
    /\ feature_set \in FeatureWords
    /\ new_feature_set \in NewFeatureWords
    /\ device_features = NoneV
    /\ call = NoneV
    /\ answer = NoneV
    /\ trail = <<>>
    /\ ops = <<>>
    /\ cls = ""
    /\ data = NoneV
    /\ pc = "init"
    /\ result = NoneV
    /\ encoded = NoneV
    /\ redecoded = NoneV
    /\ model = ""

\* device_features = build_device_features(feature_set, new_feature_set)
BuildDeviceFeatures ==
    /\ pc = "init"
    /\ device_features' = build_device_features(feature_set, new_feature_set)
    /\ pc' = "built"
    /\ UNCHANGED <<cls, data, result, encoded, redecoded, model, feature_set, new_feature_set,
                   call, answer, trail, ops>>

FeaturesNext == BuildDeviceFeatures

FeaturesSpec == FeaturesInit /\ [][FeaturesNext]_vars


(***************************************************************************)
(* Runs that assign to a field of a decoded object                         *)
(***************************************************************************)
\* the values the runs assign
AssignValues == {NoneV, IntV(0), IntV(2500000)}

\* setattr(result, nm, val) for a declared field nm.  model_config sets
\* neither frozen nor validate_assignment, so BaseModel.__setattr__ stores
\* the value as it is and runs no hook.
SetAttr ==
    /\ pc = "decoded"
    /\ Returned(result)
    /\ \E nm \in FieldNames(cls), val \in AssignValues :
          result' = Return(ObjV(ClassOf(result.v),
                                [AttrsOf(result.v) EXCEPT ![nm] = val]))
    /\ pc' = "assigned"
    /\ UNCHANGED <<cls, data, encoded, redecoded, model,
                   feature_set, new_feature_set, device_features,
                   call, answer, trail, ops>>

AssignNext == FromDict \/ SetAttr

AssignSpec == Init /\ [][AssignNext]_vars

(***************************************************************************)
(* Runs that call an accessor of the decoded Status                        *)
(***************************************************************************)
\* the symbolic names handed to the accessors: registered in some tables
\* and not in others, and one registered in none
AccessNames == {"quiet", "max_plus", "off", "intense", "high", "standard", "fast", "nope"}

Accessors == {"get_fan_speed_code", "get_mop_intensity_code", "get_mop_mode_code"}

\* answer = result.<accessor>(nm)
GetCode ==
    /\ pc = "decoded"
    /\ Returned(result)
    /\ \E ac \in Accessors, nm \in AccessNames :
          /\ call' = <<ac, nm>>
          /\ answer' = CASE ac = "get_fan_speed_code" ->
                                get_fan_speed_code(AttrsOf(result.v), nm)
                         [] ac = "get_mop_intensity_code" ->
                                get_mop_intensity_code(AttrsOf(result.v), nm)
                         [] ac = "get_mop_mode_code" ->
                                get_mop_mode_code(AttrsOf(result.v), nm)
    /\ pc' = "answered"
    /\ UNCHANGED <<cls, data, result, encoded, redecoded, model,
                   feature_set, new_feature_set, device_features, trail, ops>>

AccessNext == Resolve \/ FromDict \/ GetCode

AccessSpec == DispatchInit /\ [][AccessNext]_vars

(***************************************************************************)
(* Runs that transcode a name                                              *)
(***************************************************************************)
\* the longest word of a field name, the most words of a field name, the
\* longest wire key, and the most transcodings of one name
MaxWordLen == 3

MaxWords == 2

MaxKeyLen == 4

MaxSteps == 2

\* the strings over the characters chars of length 1..n
StringsUpTo(chars, n) == UNION {[1..len -> chars] : len \in 1..n}

\* lower-case words: letters and digits, with a letter
Words == {w \in StringsUpTo({"a", "b", "1"}, MaxWordLen) : \E i \in 1..Len(w) : IsLower(w[i])}

\* field names: words joined by single underscores
RECURSIVE NamesOf(_)
NamesOf(n) ==
    IF n = 1 THEN Words
    ELSE NamesOf(n - 1) \cup {nm \o <<"_">> \o w : nm \in NamesOf(n - 1), w \in Words}

\* keys of payloads: letters of both cases and digits
WireKeys == StringsUpTo({"a", "b", "A", "B", "1"}, MaxKeyLen)

TranscodeInit ==
    /\ trail \in {<<nm>> : nm \in NamesOf(MaxWords) \cup WireKeys}
    /\ ops = <<>>
    /\ pc = "name"
    /\ cls = ""
    /\ data = NoneV
    /\ result = NoneV
    /\ encoded = NoneV
    /\ redecoded = NoneV
    /\ model = ""
    /\ feature_set = <<>>
    /\ new_feature_set = <<>>
    /\ device_features = NoneV
    /\ call = NoneV
    /\ answer = NoneV

\* camelize(s) of the latest string s
Camelize ==
    /\ pc = "name"
    /\ Len(ops) < MaxSteps
    /\ trail' = Append(trail, camelize(trail[Len(trail)]))
    /\ ops' = Append(ops, "camelize")
    /\ UNCHANGED <<cls, data, pc, result, encoded, redecoded, model,
                   feature_set, new_feature_set, device_features, call, answer>>

\* decamelize(s) of the latest string s
Decamelize ==
    /\ pc = "name"
    /\ Len(ops) < MaxSteps
    /\ trail' = Append(trail, decamelize(trail[Len(trail)]))
    /\ ops' = Append(ops, "decamelize")
    /\ UNCHANGED <<cls, data, pc, result, encoded, redecoded, model,
                   feature_set, new_feature_set, device_features, call, answer>>

TranscodeNext == Camelize \/ Decamelize

TranscodeSpec == TranscodeInit /\ [][TranscodeNext]_vars
(***************************************************************************)
(* Properties                                                              *)
(***************************************************************************)
\* the decoded object and one of its fields
Decoded == pc \in {"decoded", "encoded", "done"} /\ Returned(result)

Attr(o, nm) == AttrsOf(o.v)[nm]

\* the raw value is a mapping that holds wire key ky
Sent(ky) == IsDict(data) /\ ky \in DOMAIN data.v

\* C1: round trip.  Once an object decoded from a payload has been encoded
\* and the encoding decoded again, that decode has returned an object and
\* every field of the first object that is not null has the same value in it.
C1_RoundTrip ==
    pc = "done" =>
        /\ Returned(redecoded)
        /\ \A nm \in DOMAIN AttrsOf(result.v) :
              Attr(result, nm) # NoneV => Attr(redecoded, nm) = Attr(result, nm)

\* the wear counters of Consumable that the claims name, each with its
\* remaining-life field and its replacement threshold
ConsumableTimers ==
    <<[counter |-> main_brush_work_time, left |-> main_brush_time_left,
       threshold |-> MAIN_BRUSH_REPLACE_TIME],
      [counter |-> side_brush_work_time, left |-> side_brush_time_left,
       threshold |-> SIDE_BRUSH_REPLACE_TIME],
      [counter |-> filter_work_time, left |-> filter_time_left,
       threshold |-> FILTER_REPLACE_TIME],
      [counter |-> sensor_dirty_time, left |-> sensor_time_left,
       threshold |-> SENSOR_DIRTY_REPLACE_TIME]>>

\* threshold - counter, or null without a counter
TimeLeft(tm, at) ==
    IF at[tm.counter] = NoneV THEN NoneV ELSE IntV(tm.threshold - at[tm.counter].v)

\* C2: Consumable remaining life.  In a decoded Consumable every time_left
\* field is its threshold minus its wear counter (not clamped), and null when
\* the counter is absent.
C2_ConsumableTimeLeft ==
    (Decoded /\ cls = "Consumable") =>
        \A i \in 1..Len(ConsumableTimers) :
            Attr(result, ConsumableTimers[i].left)
                = TimeLeft(ConsumableTimers[i], AttrsOf(result.v))

\* the name of an enum member, or null
NameOrNull(x) == IF x = NoneV THEN NoneV ELSE StrV(EnumName(x.v[1], x.v[2]))

\* the UTC datetime of epoch seconds x
UtcOf(x) ==
    IF x.t = "int" THEN DatetimeV(x.v \div 1000000000, x.v % 1000000000)
    ELSE DatetimeV(x.v[1], x.v[2])

\* the derived fields of an instance of cn with attributes at, each computed
\* from its source fields: null (the empty list for fan_power_options) when
\* the source is absent
DerivedValues(cn, at) ==
    CASE IsStatusClass(cn) ->
            (square_meter_clean_area :>
                (IF at[clean_area] = NoneV THEN NoneV ELSE square_meters(at[clean_area])))
            @@ (error_code_name :> NameOrNull(at[error_code]))
            @@ (state_name :> NameOrNull(at[state]))
            @@ (water_box_mode_name :> NameOrNull(at[water_box_mode]))
            @@ (fan_power_name :> NameOrNull(at[fan_power]))
            @@ (fan_power_options :>
                (IF at[fan_power] = NoneV THEN ListV(<<>>)
                 ELSE ListV(EnumKeys(at[fan_power].v[1]))))
            @@ (mop_mode_name :> NameOrNull(at[mop_mode]))
      [] cn = "CleanSummary" ->
            (square_meter_clean_area :>
                (IF at[clean_area] = NoneV THEN NoneV ELSE square_meters(at[clean_area])))
      [] cn = "CleanRecord" ->
            (square_meter_area :>
                (IF at[area] = NoneV THEN NoneV ELSE square_meters(at[area])))
            @@ (begin_datetime :>
                (IF at[begin] \in {NoneV, IntV(0)} THEN NoneV ELSE UtcOf(at[begin])))
            @@ (end_datetime :>
                (IF at[end] \in {NoneV, IntV(0)} THEN NoneV ELSE UtcOf(at[end])))
      [] IsTimerClass(cn) ->
            (start_time :>
                (IF at[start_hour] = NoneV \/ at[start_minute] = NoneV THEN NoneV
                 ELSE TimeV(at[start_hour].v, at[start_minute].v)))
            @@ (end_time :>
                (IF at[end_hour] = NoneV \/ at[end_minute] = NoneV THEN NoneV
                 ELSE TimeV(at[end_hour].v, at[end_minute].v)))
      [] cn = "Consumable" ->
            [nm \in {ConsumableTimers[i].left : i \in 1..Len(ConsumableTimers)} |->
                TimeLeft(ConsumableTimers[CHOOSE i \in 1..Len(ConsumableTimers) :
                                             ConsumableTimers[i].left = nm], at)]
      [] OTHER -> <<>>

\* C3: derived fields are never independently settable.  Every derived field
\* of a decoded object holds the value computed from its source fields,
\* whatever the payload supplied under the derived field's own name.
C3_DerivedRecomputed ==
    Decoded =>
        \A nm \in DOMAIN DerivedValues(cls, AttrsOf(result.v)) :
            Attr(result, nm) = DerivedValues(cls, AttrsOf(result.v))[nm]

\* value x, destined for a field of type ty, holds a value that is not
\* registered in the enumeration it is destined for
RECURSIVE HasUnregistered(_, _)
HasUnregistered(ty, x) ==
    CASE ty.k = "enum" ->
            x # NoneV /\ (IF x.t = "enum" THEN x.v[2] ELSE x) \notin EnumValues(ty.en)
      [] ty.k = "model" ->
            /\ IsDict(x)
            /\ \E i \in 1..Len(FieldsOf(ty.cn)) :
                  /\ FieldsOf(ty.cn)[i].name \in DOMAIN x.v
                  /\ HasUnregistered(FieldsOf(ty.cn)[i].ty, x.v[FieldsOf(ty.cn)[i].name])
      [] ty.k = "listof" ->
            IsList(x) /\ \E i \in 1..Len(x.v) : HasUnregistered(ty.of, x.v[i])
      [] OTHER -> FALSE

\* the payload with its keys in field-name form
Normalised == decamelize_obj(data, ignore_keys(cls))

\* C4: enum rejection.  Decoding a mapping in which the value destined for an
\* enum field, of the class or of a nested object, is not a registered code
\* of that field's enumeration raises RoborockException.
C4_EnumRejection ==
    (pc = "decoded" /\ IsDict(data) /\ HasUnregistered(TModel(cls), Normalised)) =>
        (Raised(result) /\ ExcOf(result) = "RoborockException")

C4_Witness ==
    /\ pc = "decoded"
    /\ cls = "S7Status"
    /\ data = DictV(camelize(fan_power) :> IntV(9999))
    /\ result = Raise("RoborockException", "ValidationError")

\* C5: non-mapping fallback.  Decoding a raw value that is not a mapping
\* returns an object of the class with every field at its default.
C5_NonMappingFallback ==
    (pc = "decoded" /\ ~IsDict(data)) =>
        /\ Returned(result)
        /\ \A i \in 1..Len(FieldsOf(cls)) :
              Attr(result, FieldsOf(cls)[i].name) = FieldsOf(cls)[i].dflt

\* C6: decode error wrapping.  A failed decode of a mapping raises
\* RoborockException with the underlying error as its cause, and a begin or
\* end value that has no datetime does not decode.
C6_ErrorsWrapped ==
    (pc = "decoded" /\ IsDict(data)) =>
        /\ Raised(result) =>
              /\ ExcOf(result) = "RoborockException"
              /\ IsValueError(CauseOf(result))
        /\ (cls = "CleanRecord" /\ \E ky \in {begin, end} :
                /\ Sent(ky)
                /\ data.v[ky].t \in {"int", "bigint"}
                /\ Raised(fromtimestamp_utc(data.v[ky]))) => Raised(result)

\* the value the payload holds under wire key ky, null when it holds none
PayloadValue(ky) == IF Sent(ky) THEN data.v[ky] ELSE NoneV

\* C8: zero-timestamp rule.  In a decoded CleanRecord begin_datetime is null
\* exactly when the payload's begin is absent, null or 0, and otherwise it is
\* the UTC datetime of begin as epoch seconds; likewise end_datetime and end,
\* whatever begin is.
C8_ZeroTimestamp ==
    (Decoded /\ cls = "CleanRecord") =>
        \A pr \in {<<begin, begin_datetime>>, <<end, end_datetime>>} :
            LET sent == PayloadValue(camelize(pr[1]))
            IN  /\ Attr(result, pr[2]) = NoneV <=> sent \in {NoneV, IntV(0)}
                /\ sent \notin {NoneV, IntV(0)} => Attr(result, pr[2]) = UtcOf(sent)

C8_Witness ==
    /\ Decoded
    /\ cls = "CleanRecord"
    /\ data = DictV((camelize(begin) :> IntV(0)) @@ (camelize(end) :> IntV(1700000000)))
    /\ Attr(result, begin_datetime) = NoneV
    /\ Attr(result, end_datetime) = DatetimeV(1, 700000000)

\* the fields the derived-field pass fills
DerivedFields(cn) ==
    CASE IsStatusClass(cn) ->
            {square_meter_clean_area, error_code_name, state_name, water_box_mode_name,
             fan_power_name, fan_power_options, mop_mode_name}
      [] cn = "CleanSummary" -> {square_meter_clean_area}
      [] cn = "CleanRecord" -> {square_meter_area, begin_datetime, end_datetime}
      [] IsTimerClass(cn) -> {start_time, end_time}
      [] cn = "Consumable" ->
            {ConsumableTimers[i].left : i \in 1..Len(ConsumableTimers)}
      [] OTHER -> {}

\* the keys of the payload that name no field of the class
Undeclared == {ky \in DOMAIN data.v :
                 (IF ky \in ignore_keys(cls) THEN ky ELSE decamelize(ky)) \notin FieldNames(cls)}

\* the payload without those keys
DeclaredPart == DictV([ky \in (DOMAIN data.v) \ Undeclared |-> data.v[ky]])

ExtendedWordFlags ==
    <<<<"show_clean_finish_reason_supported", 0, "">>,
      <<"resegment_supported", 2, "">>,
      <<"video_monitor_supported", 3, "">>,
      <<"any_state_transit_goto_supported", 4, "">>,
      <<"fw_filter_obstacle_supported", 5, "">>,
      <<"video_setting_supported", 6, "">>,
      <<"ignore_unknown_map_object_supported", 7, "">>,
      <<"set_child_supported", 8, "">>,
      <<"carpet_supported", 9, "">>,
      <<"record_allowed", 10, "">>,
      <<"mop_path_supported", 11, "">>,
      <<"multi_map_segment_timer_supported", 12, "legacy">>,
      <<"current_map_restore_enabled", 13, "">>,
      <<"room_name_supported", 14, "">>,
      <<"photo_upload_supported", 16, "">>,
      <<"shake_mop_set_supported", 18, "">>,
      <<"map_beautify_internal_debug_supported", 21, "">>,
      <<"new_data_for_clean_history", 22, "">>,
      <<"new_data_for_clean_history_detail", 23, "">>,
      <<"flow_led_setting_supported", 24, "">>,
      <<"dust_collection_setting_supported", 25, "">>,
      <<"rpc_retry_supported", 26, "">>,
      <<"avoid_collision_supported", 27, "">>,
      <<"support_set_switch_map_mode", 28, "">>,
      <<"map_carpet_add_supported", 30, "extended">>,
      <<"custom_water_box_distance_supported", 31, "extended">>>>

\* the value of decimal string w modulo 2^32, as <<high, low>> halves of 16
\* bits, by Horner's rule
RECURSIVE Low32(_)
Low32(w) ==
    IF Len(w) = 0 THEN <<0, 0>>
    ELSE LET pre == Low32(SubSeq(w, 1, Len(w) - 1))
             dg  == CHOOSE n \in 0..9 : DigitChars[n + 1] = w[Len(w)]
             lo  == pre[2] * 10 + dg
         IN  <<(pre[1] * 10 + (lo \div 65536)) % 65536, lo % 65536>>

\* bit n (0..31) of the integer value of decimal string w is set
BitSet(w, n) ==
    IF n < 16 THEN (Low32(w)[2] \div (2 ^ n)) % 2 = 1
    ELSE (Low32(w)[1] \div (2 ^ (n - 16))) % 2 = 1

\* the integer value of decimal string w is not zero
NonZero(w) == \E i \in 1..Len(w) : w[i] # "0"

\* the features were built from two strings of decimal digits
Built == pc = "built" /\ Returned(device_features)

\* C7: bitmask decode of the flags read from the extended word.  Each such
\* flag is true exactly when its bit is set in the integer value of the
\* extended word and the word its gate names is not zero; with legacy word
\* "0" and extended word "13" exactly show_clean_finish_reason_supported,
\* resegment_supported and video_monitor_supported of them are true.
C7_ExtendedWordFlags ==
    Built =>
        /\ \A i \in 1..Len(ExtendedWordFlags) :
              LET fl == ExtendedWordFlags[i]
              IN  device_features.v[fl[1]] <=>
                      /\ BitSet(new_feature_set, fl[2])
                      /\ fl[3] = "legacy" => NonZero(feature_set)
                      /\ fl[3] = "extended" => NonZero(new_feature_set)
        /\ (feature_set = <<"0">> /\ new_feature_set = <<"1", "3">>) =>
              \A i \in 1..Len(ExtendedWordFlags) :
                  device_features.v[ExtendedWordFlags[i][1]] <=> i \in {1, 2, 3}

C7_Witness ==
    /\ Built
    /\ feature_set = <<"0">>
    /\ new_feature_set = <<"1", "3">>
    /\ device_features.v["show_clean_finish_reason_supported"]
    /\ device_features.v["resegment_supported"]
    /\ device_features.v["video_monitor_supported"]
    /\ ~device_features.v["any_state_transit_goto_supported"]

\* the fan-speed table of each model
FanTable ==
    [ROBOROCK_S4_MAX |-> "RoborockFanSpeedS6Pure", ROBOROCK_S5_MAX |-> "RoborockFanSpeedS6Pure",
     ROBOROCK_Q7_MAX |-> "RoborockFanSpeedQ7Max", ROBOROCK_S6 |-> "RoborockFanSpeedS6Pure",
     ROBOROCK_S6_MAXV |-> "RoborockFanSpeedS7MaxV", ROBOROCK_S6_PURE |-> "RoborockFanSpeedS6Pure",
     ROBOROCK_S7_MAXV |-> "RoborockFanSpeedS7MaxV", ROBOROCK_S7 |-> "RoborockFanSpeedS7",
     ROBOROCK_S8 |-> "RoborockFanSpeedS7MaxV", ROBOROCK_S8_PRO_ULTRA |-> "RoborockFanSpeedS7MaxV",
     ROBOROCK_G10S_PRO |-> "RoborockFanSpeedS7MaxV", ROBOROCK_P10 |-> "RoborockFanSpeedP10",
     ROBOROCK_QREVO_S |-> "RoborockFanSpeedP10", ROBOROCK_QREVO_MAXV |-> "RoborockFanSpeedP10",
     ROBOROCK_QREVO_PRO |-> "RoborockFanSpeedP10",
     ROBOROCK_S8_MAXV_ULTRA |-> "RoborockFanSpeedS8MaxVUltra"]

\* the fields a Status variant may rebind
Rebindable == {fan_power, water_box_mode, mop_mode}

\* class cn declares the fields of Status, in order, and differs from it at
\* most in the enumerations of the rebindable fields
SameAsStatus(cn) ==
    /\ Len(FieldsOf(cn)) = Len(Fields_Status)
    /\ \A i \in 1..Len(Fields_Status) :
          LET fv == FieldsOf(cn)[i]
              fb == Fields_Status[i]
          IN  \/ fv = fb
              \/ /\ fb.name \in Rebindable
                 /\ fv.ty.k = "enum"
                 /\ fv = [fb EXCEPT !.ty = fv.ty]

\* C10: model dispatch.  Every registered model resolves to a variant of
\* Status that decodes a fan power exactly when the code is registered in
\* the model's fan-speed table, that declares the fields of Status with at
\* most the enumerations of fan_power, water_box_mode and mop_mode changed,
\* and that decodes a payload without those three as Status does.
C10_ModelDispatch ==
    (model # "" /\ pc # "unresolved") =>
        /\ cls \in StatusVariants
        /\ SameAsStatus(cls)
        /\ (pc = "decoded" /\ Sent(camelize(fan_power))) =>
              /\ Returned(result) <=>
                    data.v[camelize(fan_power)] \in EnumValues(FanTable[model])
              /\ Returned(result) =>
                    Attr(result, fan_power)
                        = EnumV(FanTable[model], data.v[camelize(fan_power)])
        /\ (pc = "decoded" /\ \A nm \in Rebindable : ~Sent(camelize(nm))) =>
              /\ Returned(result)
              /\ AttrsOf(result.v) = AttrsOf(from_dict("Status", data).v)

\* the Q7 Max refuses 105, a code of the S7 table only
C10_Witness ==
    /\ model = "ROBOROCK_Q7_MAX"
    /\ pc = "decoded"
    /\ cls = "Q7MaxStatus"
    /\ data = DictV(camelize(fan_power) :> IntV(105))
    /\ IntV(105) \in EnumValues(FanTable["ROBOROCK_S7"])
    /\ IntV(105) \notin EnumValues(FanTable["ROBOROCK_Q7_MAX"])
    /\ Raised(result)


\* an object has been constructed
Constructed == pc \in {"decoded", "assigned"} /\ Returned(result)

\* C11: immutability.  No step taken after an object has been constructed
\* changes any of its fields (so its derived fields keep matching its source
\* fields).
C11_Immutable == [][Constructed => result' = result]_vars

\* value x is in encoded form for a schema with exempted keys ign: at every
\* depth each key of a mapping that is not exempted holds no underscore and
\* no key has a null value; no value is an enum member or a domain object
RECURSIVE EncodedForm(_, _)
EncodedForm(x, ign) ==
    CASE IsDict(x) ->
            \A ky \in DOMAIN x.v :
                /\ ky \notin ign => \A i \in 1..Len(ky) : ky[i] # "_"
                /\ x.v[ky] # NoneV
                /\ EncodedForm(x.v[ky], ign)
      [] IsList(x) -> \A i \in 1..Len(x.v) : EncodedForm(x.v[i], ign)
      [] OTHER -> x.t \notin {"enum", "obj"}

\* C12: recursive encode.  The mapping as_dict returns is in encoded form at
\* every nesting depth: wire keys, enum fields as their codes, no null value.
C12_RecursiveEncode ==
    pc \in {"encoded", "done"} => EncodedForm(encoded, ignore_keys(cls))

\* the flags read from the part of the extended word beyond its low 32 bits,
\* each with its bit of that part
ExtendedHighFlags ==
    <<<<"wash_then_charge_cmd_supported", 0>>,
      <<"support_smart_scene", 1>>,
      <<"support_floor_edit", 3>>,
      <<"support_furniture", 4>>,
      <<"support_room_tag", 6>>,
      <<"support_quick_map_builder", 7>>,
      <<"support_smart_global_clean_with_custom_mode", 8>>,
      <<"careful_slow_map_supported", 9>>,
      <<"egg_mode_supported", 10>>,
      <<"carpet_show_on_map", 12>>,
      <<"supported_valley_electricity", 13>>,
      <<"unsave_map_reason_supported", 14>>,
      <<"drying_supported", 15>>,
      <<"download_test_voice_supported", 16>>,
      <<"support_backup_map", 17>>,
      <<"support_custom_mode_in_cleaning", 18>>,
      <<"support_remote_control_in_call", 19>>>>

\* the binary digits, lowest first, of (the integer value of decimal string
\* w) div 2^32
HighBits(w) == ShiftRight(int_dec(w), 32)

\* C13: extended-high bit table.  Each flag read from extended_high equals
\* its listed bit of the extended word's integer value div 2^32, and so does
\* not depend on the low 32 bits of the word.
C13_ExtendedHighFlags ==
    Built =>
        \A hb \in {HighBits(new_feature_set)} :
            \A i \in 1..Len(ExtendedHighFlags) :
                device_features.v[ExtendedHighFlags[i][1]]
                    <=> /\ Len(hb) > ExtendedHighFlags[i][2]
                        /\ hb[ExtendedHighFlags[i][2] + 1] = 1

\* the flags read from the last characters of the extended word, each with
\* its bit: those that also need the word's length to be a multiple of 8,
\* and those that do not
GatedTailFlags ==
    <<<<"support_set_volume_in_call", 0>>,
      <<"support_clean_estimate", 1>>,
      <<"support_custom_dnd", 2>>,
      <<"stuck_zone_supported", 4>>,
      <<"custom_door_sill_supported", 5>>,
      <<"cliff_zone_supported", 9>>,
      <<"smart_door_sill_supported", 10>>,
      <<"support_floor_direction", 11>>>>

UngatedTailFlags ==
    <<<<"carpet_deep_clean_supported", 3>>,
      <<"wifi_manage_supported", 7>>,
      <<"clean_route_fast_mode_supported", 8>>,
      <<"back_charge_auto_wash_supported", 12>>,
      <<"support_incremental_map", 13>>,
      <<"offline_map_supported", 14>>>>

\* bit n (0..31) of the last 8 characters of digit string w read as a
\* hexadecimal number: a bit of the character n div 4 places from the end
TailBitSet(w, n) ==
    /\ n \div 4 < Len(w)
    /\ (DigitOf[w[Len(w) - (n \div 4)]] \div (2 ^ (n % 4))) % 2 = 1

\* C14: tail alignment gate.  A gated tail flag is true exactly when the
\* length of the extended word is a multiple of 8 and its bit of the tail
\* value is set; an ungated tail flag is true exactly when its bit is set.
C14_TailGate ==
    Built =>
        /\ \A i \in 1..Len(GatedTailFlags) :
              device_features.v[GatedTailFlags[i][1]]
                  <=> /\ Len(new_feature_set) % 8 = 0
                      /\ TailBitSet(new_feature_set, GatedTailFlags[i][2])
        /\ \A i \in 1..Len(UngatedTailFlags) :
              device_features.v[UngatedTailFlags[i][1]]
                  <=> TailBitSet(new_feature_set, UngatedTailFlags[i][2])

\* the word "128" (three characters): the ungated bit 3 is reported, the
\* gated bit 5 is set in the tail value and not reported
C14_Witness ==
    /\ Built
    /\ new_feature_set = <<"1", "2", "8">>
    /\ TailBitSet(new_feature_set, 5)
    /\ ~device_features.v["custom_door_sill_supported"]
    /\ device_features.v["carpet_deep_clean_supported"]

\* the enum field each accessor reads
AccessedField ==
    [get_fan_speed_code |-> fan_power,
     get_mop_intensity_code |-> water_box_mode,
     get_mop_mode_code |-> mop_mode]

\* outcome ans of call cl on the Status st is what the accessors promise: an
\* error when the field is unset; otherwise a return, of the code registered
\* under the name in the table of the field's enumeration when there is one
Promised(st, cl, ans) ==
    IF AttrsOf(st)[AccessedField[cl[1]]] = NoneV
    THEN Raised(ans)
    ELSE /\ Returned(ans)
         /\ \A i \in 1..Len(EnumMembers(AttrsOf(st)[AccessedField[cl[1]]].v[1])) :
               EnumMembers(AttrsOf(st)[AccessedField[cl[1]]].v[1])[i].name = cl[2]
                   => /\ ans.v = EnumMembers(AttrsOf(st)[AccessedField[cl[1]]].v[1])[i].val
                      /\ ans.v.t = "int"

\* C15: unset-enum access.  A call of get_fan_speed_code,
\* get_mop_intensity_code or get_mop_mode_code leaves the Status unchanged;
\* it raises when the field it reads is unset, whatever the argument, and
\* otherwise returns the integer code registered for the name, not raising.
C15_UnsetEnumAccess ==
    [][pc' = "answered" => (result' = result /\ Promised(result'.v, call', answer'))]_vars

\* get_fan_speed_code has raised on a Status whose fan_power is unset
C15_Witness ==
    /\ pc = "answered"
    /\ call[1] = "get_fan_speed_code"
    /\ Attr(result, fan_power) = NoneV
    /\ Raised(answer)
    /\ ExcOf(answer) = "RoborockException"

\* a domain-convention name: non-empty lower-case words (letters and digits,
\* with a letter) joined by single underscores
IsDomainName(s) ==
    /\ \A i \in 1..Len(s) : IsLower(s[i]) \/ s[i] \in DOMAIN DigitOf \/ s[i] = "_"
    /\ \A i \in 1..Len(str_split(s, "_")) :
          \E j \in 1..Len(str_split(s, "_")[i]) : IsLower(str_split(s, "_")[i][j])

\* a wire key: a non-empty string without a separator
IsWireKey(s) == Len(s) > 0 /\ \A i \in 1..Len(s) : s[i] # "_"

\* s holds two upper-case characters in a row
HasUpperRun(s) == \E i \in 1..(Len(s) - 1) : IsUpper(s[i]) /\ IsUpper(s[i + 1])

\* C16: name transcoder round trip.  decamelize(camelize(name)) = name for
\* every domain-convention name, and camelize keeps a name of one word;
\* camelize(decamelize(k)) differs from a wire key k only when k holds a run
\* of two or more upper-case characters or starts with an upper-case one.
C16_TranscoderRoundTrip ==
    /\ (ops = <<"camelize", "decamelize">> /\ IsDomainName(trail[1]))
          => trail[3] = trail[1]
    /\ (ops = <<"camelize">> /\ IsDomainName(trail[1]) /\ Len(str_split(trail[1], "_")) = 1)
          => trail[2] = trail[1]
    /\ (ops = <<"decamelize", "camelize">> /\ IsWireKey(trail[1]) /\ trail[3] # trail[1])
          => HasUpperRun(trail[1]) \/ IsUpper(trail[1][1])
====
